---- MODULE Spec2Model ----
(***************************************************************************)
(* A model of the scoped dataflow graph engine: the structural visitor     *)
(* (engine/graph_parser.py: SymbolTable, WorldVisitor, link_calls,         *)
(* hydrate_unlinked_calls), injection and the graph mutation helpers, and  *)
(* the synthesizer (engine/synthesizer.py).                                *)
(*                                                                         *)
(* Node ids are the strings "<TYPE>_<n>": the eight hex digits the code    *)
(* draws from uuid4 are modelled by a counter, so two ids never collide.   *)
(* In a record, "" stands for an absent (None) string and -1 for an absent *)
(* index; every reader in the code treats an absent key and None alike.    *)
(***************************************************************************)
EXTENDS Integers, Sequences, FiniteSets, TLC

(***************************************************************************)
(* Bounds of the model.                                                    *)
(***************************************************************************)
\* the number of graph operations applied after the parse
MaxOps == 1
\* the number of calls made on a SymbolTable of its own
MaxCalls == 4
\* the number of commands given to a debugger
MaxCommands == 4
\* the number of helper calls an editor makes on the graph it holds
MaxEdits == 3

(***************************************************************************)
(* Abstract syntax of the source text handed to libcst.                    *)
(***************************************************************************)
NoExpr == [k |-> "none", name |-> "", args |-> <<>>, kws |-> <<>>]
\* a literal is its source text, as libcst keeps it (Integer.value is a string)
Lit(text) == [k |-> "lit", name |-> text, args |-> <<>>, kws |-> <<>>]
Name(x) == [k |-> "name", name |-> x, args |-> <<>>, kws |-> <<>>]
Bin(op, l, r) == [k |-> "bin", name |-> op, args |-> <<l, r>>, kws |-> <<>>]
Call(f, as) == [k |-> "call", name |-> f, args |-> as, kws |-> [i \in 1..Len(as) |-> ""]]
\* a call with keyword arguments: kws[i] is the keyword of argument i, or ""
CallKw(f, as, kws) == [k |-> "call", name |-> f, args |-> as, kws |-> kws]
ListE(as) == [k |-> "list", name |-> "", args |-> as, kws |-> <<>>]
\* r.x: an attribute when x is a name, a method call when x is a call
Dot(r, x) == [k |-> "dot", name |-> ".", args |-> <<r, x>>, kws |-> <<>>]
\* a dict literal; args holds key1, value1, key2, value2, ...
DictE(kvs) == [k |-> "dict", name |-> "", args |-> kvs, kws |-> <<>>]

Param(x) == [name |-> x, optional |-> FALSE]

Assign(x, e) == [k |-> "assign", name |-> x, params |-> <<>>, e |-> e,
                 body |-> <<>>, orelse |-> <<>>, has_else |-> FALSE]
ExprS(e) == [k |-> "expr", name |-> "", params |-> <<>>, e |-> e,
             body |-> <<>>, orelse |-> <<>>, has_else |-> FALSE]
Return(e) == [k |-> "return", name |-> "", params |-> <<>>, e |-> e,
              body |-> <<>>, orelse |-> <<>>, has_else |-> FALSE]
Def(f, ps, b) == [k |-> "def", name |-> f, params |-> ps, e |-> NoExpr,
                  body |-> b, orelse |-> <<>>, has_else |-> FALSE]
If(t, b) == [k |-> "if", name |-> "", params |-> <<>>, e |-> t,
             body |-> b, orelse |-> <<>>, has_else |-> FALSE]
IfElse(t, b, o) == [k |-> "if", name |-> "", params |-> <<>>, e |-> t,
                    body |-> b, orelse |-> o, has_else |-> TRUE]
Import(m) == [k |-> "import", name |-> m, params |-> <<>>, e |-> NoExpr,
              body |-> <<>>, orelse |-> <<>>, has_else |-> FALSE]
Pass == [k |-> "pass", name |-> "", params |-> <<>>, e |-> NoExpr,
         body |-> <<>>, orelse |-> <<>>, has_else |-> FALSE]
\* if t: b elif ...: the orelse of the If is the If statement of the elif
IfElif(t, b, elif) == [k |-> "if", name |-> "", params |-> <<>>, e |-> t,
                       body |-> b, orelse |-> <<elif>>, has_else |-> FALSE]
For(target, iter, b) == [k |-> "for", name |-> target, params |-> <<>>, e |-> iter,
                         body |-> b, orelse |-> <<>>, has_else |-> FALSE]
While(t, b) == [k |-> "while", name |-> "", params |-> <<>>, e |-> t,
                body |-> b, orelse |-> <<>>, has_else |-> FALSE]
\* except type as name: b, where type is NoExpr and name is "" when absent
Except(type, name, b) == [k |-> "except", name |-> name, params |-> <<>>, e |-> type,
                          body |-> b, orelse |-> <<>>, has_else |-> FALSE]
\* try: b followed by the handlers
Try(b, handlers) == [k |-> "try", name |-> "", params |-> <<>>, e |-> NoExpr,
                     body |-> b, orelse |-> handlers, has_else |-> FALSE]

\* the text of an expression, as cst.Module(n).code_for_node(n) gives it back
RECURSIVE SrcText(_)
RECURSIVE SrcTextList(_, _)
SrcTextList(es, i) ==
    IF i > Len(es) THEN ""
    ELSE SrcText(es[i]) \o (IF i < Len(es) THEN ", " ELSE "") \o SrcTextList(es, i + 1)
SrcText(e) ==
    CASE e.k = "lit" -> e.name
      [] e.k = "name" -> e.name
      [] e.k = "bin" -> SrcText(e.args[1]) \o " " \o e.name \o " " \o SrcText(e.args[2])
      [] e.k = "call" -> e.name \o "(" \o SrcTextList(e.args, 1) \o ")"
      [] e.k = "list" -> "[" \o SrcTextList(e.args, 1) \o "]"
      [] e.k = "dot" -> SrcText(e.args[1]) \o "." \o SrcText(e.args[2])
      [] OTHER -> ""

(***************************************************************************)
(* Graph records.                                                          *)
(***************************************************************************)
NoData == [mode |-> "", version |-> 0, optional |-> FALSE, origin_id |-> "",
           origin_world |-> "", params |-> <<>>, target_world |-> "",
           is_method |-> FALSE, test |-> "", target |-> ""]
NoEdgeData == [index |-> -1, keyword |-> "", port_name |-> ""]
EmptyGraph == [nodes |-> <<>>, edges |-> <<>>]

NodeId(type, n) == type \o "_" \o ToString(n)

(***************************************************************************)
(* SymbolTable: a stack of scopes, each a function from names to           *)
(* [current_id, version, world].                                           *)
(***************************************************************************)
EmptyScope == [n \in {} |-> 0]

push_scope(scopes) == Append(scopes, EmptyScope)

\* pop_scope without the guard: the last scope is popped too
pop_scope_unguarded(scopes) == SubSeq(scopes, 1, Len(scopes) - 1)

pop_scope(scopes) ==
    IF Len(scopes) > 1 THEN SubSeq(scopes, 1, Len(scopes) - 1) ELSE scopes

\* define_write without the version counter: every write is version 1
define_write_unversioned(scopes, name, node_id, world_id) ==
    LET scope == scopes[Len(scopes)]
        entry == [current_id |-> node_id, version |-> 1, world |-> world_id]
    IN [scopes |-> [scopes EXCEPT ![Len(scopes)] = (name :> entry) @@ scope],
        version |-> 1]

\* define_write that binds the name in the outermost scope
define_write_outermost(scopes, name, node_id, world_id) ==
    LET scope == scopes[1]
        version == (IF name \in DOMAIN scope THEN scope[name].version ELSE 0) + 1
        entry == [current_id |-> node_id, version |-> version, world |-> world_id]
    IN [scopes |-> [scopes EXCEPT ![1] = (name :> entry) @@ scope],
        version |-> version]

define_write(scopes, name, node_id, world_id) ==
    LET scope == scopes[Len(scopes)]
        version == (IF name \in DOMAIN scope THEN scope[name].version ELSE 0) + 1
        entry == [current_id |-> node_id, version |-> version, world |-> world_id]
    IN [scopes |-> [scopes EXCEPT ![Len(scopes)] = (name :> entry) @@ scope],
        version |-> version]

RECURSIVE resolve_from(_, _, _)
resolve_from(scopes, i, name) ==
    IF i = 0 THEN [id |-> "", world |-> ""]
    ELSE IF name \in DOMAIN scopes[i]
         THEN [id |-> scopes[i][name].current_id, world |-> scopes[i][name].world]
         ELSE resolve_from(scopes, i - 1, name)

resolve_read(scopes, name) == resolve_from(scopes, Len(scopes), name)

(***************************************************************************)
(* WorldVisitor.  The visitor object is the record v; every visit_ and     *)
(* leave_ method is an operator from the visitor before to the visitor     *)
(* after.  err holds the message of an exception raised during the visit.  *)
(***************************************************************************)
WorldVisitor(start_world, firstId) ==
    [nodes |-> <<>>, edges |-> <<>>, nextId |-> firstId,
     active_parent_stack |-> <<>>, call_stack |-> <<>>,
     current_world |-> start_world, world_stack |-> <<start_world>>,
     in_lvalue |-> FALSE, ignore_next_name |-> FALSE,
     scopes |-> <<EmptyScope>>,
     world_definitions |-> [p \in {} |-> ""],
     current_arg_index |-> 0,
     proxy_cache |-> [p \in {} |-> ""],
     err |-> ""]

Parent(type, node_id, index, keyword) ==
    [type |-> type, node_id |-> node_id, index |-> index, keyword |-> keyword]

Top(s) == s[Len(s)]
Pop(s) == SubSeq(s, 1, Len(s) - 1)
LastId(v) == v.nodes[Len(v.nodes)].id

_add_node(v, type, label, data, world) ==
    [v EXCEPT !.nodes = Append(@, [id |-> NodeId(type, v.nextId), type |-> type,
                                   label |-> label,
                                   world |-> IF world = "" THEN v.current_world ELSE world,
                                   data |-> data]),
              !.nextId = @ + 1]

HasEdge(edges, source, target, etype) ==
    \E i \in 1..Len(edges) :
        edges[i].source = source /\ edges[i].target = target /\ edges[i].type = etype

NewEdge(source, target, etype, data) ==
    [source |-> source, target |-> target, type |-> etype, label |-> "", data |-> data]

_add_edge(v, source, target, etype, data) ==
    IF HasEdge(v.edges, source, target, etype) THEN v
    ELSE [v EXCEPT !.edges = Append(@, NewEdge(source, target, etype, data))]

_connect_to_active_parent(v, child_id) ==
    IF v.active_parent_stack = <<>> THEN v
    ELSE LET parent == Top(v.active_parent_stack)
             indexed == {"OPERAND", "LIST_ELEMENT", "DICT_KEY", "DICT_VALUE"}
             plain == {"ACCESS_VALUE", "ACCESS_KEY", "ATTRIBUTE_VALUE", "ITERATES_ON"}
             etype == CASE parent.type = "ARGUMENT" -> "ARGUMENT"
                        [] parent.type \in indexed -> parent.type
                        [] parent.type = "ASSIGNMENT" -> "WRITES_TO"
                        [] parent.type \in plain -> parent.type
                        [] OTHER -> "INPUT"
             edge_data == CASE parent.type = "ARGUMENT" ->
                                   [NoEdgeData EXCEPT !.index = parent.index,
                                                      !.keyword = parent.keyword]
                            [] parent.type \in indexed ->
                                   [NoEdgeData EXCEPT !.index = parent.index]
                            [] OTHER -> NoEdgeData
         IN _add_edge(v, child_id, parent.node_id, etype, edge_data)

PushParent(v, p) == [v EXCEPT !.active_parent_stack = Append(@, p)]
PopParent(v) == [v EXCEPT !.active_parent_stack = Pop(@)]
PopParentIf(v, type) ==
    IF v.active_parent_stack # <<>> /\ Top(v.active_parent_stack).type = type
    THEN PopParent(v) ELSE v

EnterWorld(v, world_id) ==
    [v EXCEPT !.world_stack = Append(@, v.current_world),
              !.current_world = world_id,
              !.scopes = push_scope(@)]

\* leaving a world without self.symbols.pop_scope()
LeaveWorld_keeps_scope(v) ==
    [v EXCEPT !.current_world = Top(v.world_stack),
              !.world_stack = Pop(@)]

LeaveWorld(v) ==
    [v EXCEPT !.current_world = Top(v.world_stack),
              !.world_stack = Pop(@),
              !.scopes = pop_scope(@)]

\* the proxy logic of visit_Name: v has the new proxy node as its last node
NewProxy(v, origin) ==
    _add_edge([v EXCEPT !.proxy_cache = (<<v.current_world, origin.id>> :> LastId(v)) @@ @],
              origin.id, LastId(v), "CLOSURE_OF", NoEdgeData)

\* a read that never looks into proxy_cache: every outer read gets a new proxy
LinkRead_uncached(v, var_name, origin) ==
    LET Link(v1) ==
            _connect_to_active_parent(v1,
                IF origin.world = v1.current_world THEN origin.id
                ELSE v1.proxy_cache[<<v1.current_world, origin.id>>])
    IN IF origin.id = "" THEN v
       ELSE Link(IF origin.world = v.current_world THEN v
                 ELSE NewProxy(_add_node(v, "VARIABLE", var_name,
                                         [NoData EXCEPT !.mode = "closure_read",
                                                        !.origin_id = origin.id,
                                                        !.origin_world = origin.world], ""),
                               origin))

\* a read of var_name that resolves to origin = [id, world]
LinkRead(v, var_name, origin) ==
    LET cached == origin.world = v.current_world
                  \/ <<v.current_world, origin.id>> \in DOMAIN v.proxy_cache
        Link(v1) ==
            _connect_to_active_parent(v1,
                IF origin.world = v1.current_world THEN origin.id
                ELSE v1.proxy_cache[<<v1.current_world, origin.id>>])
    IN IF origin.id = "" THEN v
       ELSE Link(IF cached THEN v
                 ELSE NewProxy(_add_node(v, "VARIABLE", var_name,
                                         [NoData EXCEPT !.mode = "closure_read",
                                                        !.origin_id = origin.id,
                                                        !.origin_world = origin.world], ""),
                               origin))

visit_Name(v, var_name) ==
    IF v.ignore_next_name THEN [v EXCEPT !.ignore_next_name = FALSE]
    ELSE IF v.in_lvalue \/ v.active_parent_stack = <<>> THEN v
    ELSE LinkRead(v, var_name, resolve_read(v.scopes, var_name))

\* nid = self._add_node(...); self._connect_to_active_parent(nid)
AddConnected(v, type, label) ==
    LET Connect(v1) == _connect_to_active_parent(v1, LastId(v1))
    IN Connect(_add_node(v, type, label, NoData, ""))

_atomic(v, val, type) ==
    IF v.active_parent_stack = <<>> THEN v ELSE AddConnected(v, type, val)

SetOperandIndex(v, i) ==
    IF v.active_parent_stack # <<>> /\ Top(v.active_parent_stack).type = "OPERAND"
    THEN [v EXCEPT !.active_parent_stack[Len(v.active_parent_stack)].index = i]
    ELSE v

visit_BinaryOperation(v, e) ==
    LET Open(v1) == PushParent(v1, Parent("OPERAND", LastId(v1), 0, ""))
    IN Open(AddConnected(v, "OPERATOR", e.name))

leave_BinaryOperation(v) == PopParentIf(v, "OPERAND")

\* visit_Call, then the visit of the Name that is the called function
visit_Call(v, e) ==
    LET Open(v1) == visit_Name([v1 EXCEPT !.call_stack = Append(@, LastId(v1)),
                                          !.current_arg_index = 0], e.name)
    IN Open(AddConnected([v EXCEPT !.ignore_next_name = TRUE], "CALL", e.name))

\* visit_Call of a call r.m(...), up to n.func.value.visit(self): the node is
\* labelled with the text of r.m
visit_Call_attribute(v, e) ==
    LET Open(v1) == PushParent(v1, Parent("ATTRIBUTE_VALUE", LastId(v1), -1, ""))
    IN Open(AddConnected(v, "CALL", SrcText(e.args[1]) \o "." \o e.args[2].name))

\* visit_Call from there on, nid being the CALL node: the node that is now the
\* last of the graph gets the method name as label, and is_method
visit_Call_method(v, e, nid) ==
    [PopParent(v) EXCEPT !.nodes[Len(v.nodes)].label = e.args[2].name,
                         !.nodes[Len(v.nodes)].data.is_method = TRUE,
                         !.call_stack = Append(@, nid),
                         !.current_arg_index = 0]

\* visit_Attribute up to n.value.visit(self)
visit_Attribute(v, attr) ==
    LET Open(v1) == PushParent(v1, Parent("ATTRIBUTE_VALUE", LastId(v1), -1, ""))
    IN Open(AddConnected(v, "ATTRIBUTE", attr))

leave_Call(v) ==
    [v EXCEPT !.call_stack = Pop(@), !.ignore_next_name = FALSE, !.current_arg_index = 0]

\* visit_Arg, then the visit of the Name that is the keyword
visit_Arg(v, keyword) ==
    LET Pushed(v0) ==
            IF v0.call_stack = <<>> THEN v0
            ELSE PushParent(v0, Parent("ARGUMENT", Top(v0.call_stack),
                                       IF keyword # "" THEN -1 ELSE v0.current_arg_index,
                                       keyword))
        Counted(v1) ==
            IF keyword = "" THEN [v1 EXCEPT !.current_arg_index = @ + 1]
            ELSE visit_Name(v1, keyword)
    IN Counted(Pushed([v EXCEPT !.ignore_next_name = FALSE]))

leave_Arg(v) == PopParentIf(v, "ARGUMENT")

visit_List(v) == AddConnected(v, "LIST_CONSTRUCTOR", "[]")

visit_Dict(v) == AddConnected(v, "DICT_CONSTRUCTOR", "{}")

\* what the visitor does when the traversal enters the expression e
VisitNode(v, e) ==
    CASE e.k = "lit" -> _atomic(v, e.name, "LITERAL")
      [] e.k = "name" -> visit_Name(v, e.name)
      [] e.k = "bin" -> visit_BinaryOperation(v, e)
      [] e.k = "call" -> visit_Call(v, e)
      [] e.k = "list" -> visit_List(v)
      [] e.k = "dict" -> visit_Dict(v)
      [] OTHER -> v

\* ... before it visits child i of e, the node nid (pair number j of a dict
\* is args[2j-1] : args[2j]) ...
BeforeChild(v, e, nid, i) ==
    CASE e.k = "bin" -> SetOperandIndex(v, i - 1)
      [] e.k = "call" -> visit_Arg(v, e.kws[i])
      [] e.k = "list" -> PushParent(v, Parent("LIST_ELEMENT", nid, i - 1, ""))
      [] e.k = "dict" -> PushParent(v, Parent(IF i % 2 = 1 THEN "DICT_KEY" ELSE "DICT_VALUE",
                                              nid, (i - 1) \div 2, ""))
      [] OTHER -> v

\* ... after it has visited that child ...
AfterChild(v, e) ==
    CASE e.k = "call" -> leave_Arg(v)
      [] e.k \in {"list", "dict"} -> PopParent(v)
      [] OTHER -> v

\* ... and when it leaves e
LeaveNode(v, e) ==
    CASE e.k = "bin" -> leave_BinaryOperation(v)
      [] e.k = "call" -> leave_Call(v)
      [] OTHER -> v

RECURSIVE VisitExpr(_, _)
RECURSIVE VisitChildren(_, _, _, _)

VisitChildren(v, e, nid, i) ==
    IF v.err # "" \/ i > Len(e.args) THEN v
    ELSE VisitChildren(AfterChild(VisitExpr(BeforeChild(v, e, nid, i), e.args[i]), e),
                       e, nid, i + 1)

RECURSIVE VisitAttribute(_, _)
RECURSIVE VisitMethodCall(_, _, _)

\* node.visit(visitor) of libcst, for an expression
VisitExpr(v, e) ==
    LET Children(v1) ==
            IF e.args = <<>> THEN v1 ELSE VisitChildren(v1, e, LastId(v1), 1)
    IN CASE e.k = "dot" /\ e.args[2].k = "call" ->
                VisitMethodCall(visit_Call_attribute(v, e), e, NodeId("CALL", v.nextId))
         [] e.k = "dot" -> VisitAttribute(v, e)
         [] OTHER -> LeaveNode(Children(VisitNode(v, e)), e)

\* r.x: visit_Attribute returns False after it has visited the receiver
VisitAttribute(v, e) ==
    PopParent(VisitExpr(visit_Attribute(v, e.args[2].name), e.args[1]))

\* r.m(...): visit_Call visits the receiver; libcst then visits the callee,
\* where visit_Attribute visits the receiver again, and the arguments
VisitMethodCall(v, e, nid) ==
    LET Arguments(v1) == leave_Call(VisitChildren(v1, e.args[2], nid, 1))
        Callee(v1) == Arguments(VisitAttribute(v1, e))
    IN Callee(visit_Call_method(VisitExpr(v, e.args[1]), e, nid))

visit_Import(v, s) == _add_node(v, "IMPORT", "import " \o s.name, NoData, "world_imports")

visit_Assign(v, s) ==
    LET Versioned(v1, w) ==
            PushParent([v1 EXCEPT !.scopes = w.scopes,
                                  !.nodes[Len(v1.nodes)].data.version = w.version,
                                  !.nodes[Len(v1.nodes)].label =
                                      IF w.version > 1
                                      THEN s.name \o "_v" \o ToString(w.version) ELSE @],
                       Parent("ASSIGNMENT", LastId(v1), -1, ""))
        Added(v1) == Versioned(v1, define_write(v1.scopes, s.name, LastId(v1),
                                                v1.current_world))
    IN Added(_add_node(v, "VARIABLE", s.name, [NoData EXCEPT !.mode = "write"], ""))

\* visit_AssignTarget, the visit of the target Name, leave_AssignTarget
VisitAssignTarget(v, s) ==
    [visit_Name([v EXCEPT !.in_lvalue = TRUE], s.name) EXCEPT !.in_lvalue = FALSE]

leave_Assign(v) == PopParentIf(v, "ASSIGNMENT")

visit_Return(v) ==
    LET Open(v1) == PushParent(v1, Parent("RETURN_VAL", LastId(v1), -1, ""))
    IN Open(_add_node(v, "RETURN", "return", NoData, ""))

leave_Return(v) == PopParent(v)

\* step 4 of visit_FunctionDef: the parameters are version 1 of their names
RECURSIVE DefineParams(_, _, _)
DefineParams(v, ps, i) ==
    IF i > Len(ps) THEN v
    ELSE LET Defined(v1) ==
                 [v1 EXCEPT !.scopes = define_write(@, ps[i].name, LastId(v1),
                                                    v1.current_world).scopes]
         IN DefineParams(Defined(_add_node(v, "VARIABLE", ps[i].name,
                                           [NoData EXCEPT !.mode = "param", !.version = 1,
                                                          !.optional = ps[i].optional],
                                           v.current_world)),
                         ps, i + 1)

visit_FunctionDef(v, s) ==
    LET Entered(v1) ==
            [EnterWorld([v1 EXCEPT !.world_definitions =
                                       (<<v.current_world, s.name>> :> LastId(v1)) @@ @],
                        LastId(v1))
                EXCEPT !.proxy_cache = [p \in {q \in DOMAIN @ : q[1] # LastId(v1)} |-> @[p]]]
    IN DefineParams(Entered(_add_node(v, "FUNCTION_DEF", s.name,
                                      [NoData EXCEPT !.params = s.params], "")),
                    s.params, 1)

\* libcst then visits the Name of the function and of every parameter
RECURSIVE VisitDefNames(_, _, _)
VisitDefNames(v, s, i) ==
    IF i > Len(s.params) THEN v
    ELSE VisitDefNames(visit_Name(v, IF i = 0 THEN s.name ELSE s.params[i].name), s, i + 1)

leave_FunctionDef(v) == LeaveWorld(v)

\* visit_If up to n.test.visit(self)
visit_If(v, s) ==
    LET Open(v1) == PushParent(v1, Parent("INPUT", LastId(v1), -1, ""))
    IN Open(_add_node(v, "IF_BLOCK", "if " \o SrcText(s.e),
                      [NoData EXCEPT !.test = SrcText(s.e)], ""))

\* visit_If from there up to n.body.visit(self)
visit_If_body(v) ==
    EnterWorld(PopParent(v), Top(v.active_parent_stack).node_id)

\* visit_If after the body, for an If with no orelse and for one with an else
\* clause: an else clause is a cst.Else, and evaluating cst.SimpleBlock to
\* test for it raises
visit_If_orelse(v, s) ==
    IF ~s.has_else THEN LeaveWorld(v)
    ELSE [PushParent(LeaveWorld(v), Parent("NEXT_CLAUSE", v.current_world, -1, ""))
             EXCEPT !.err = "module 'libcst' has no attribute 'SimpleBlock'"]

\* visit_If after the body, for an If whose orelse is an If, up to
\* n.orelse.visit(self)
visit_If_elif(v, s) ==
    LET Connect(v1) == _connect_to_active_parent(v1, LastId(v1))
        Clause(v1) ==
            Connect(_add_node(v1, "ELIF_BLOCK", "elif " \o SrcText(s.orelse[1].e),
                              [NoData EXCEPT !.test = SrcText(s.orelse[1].e)], ""))
    IN Clause(PushParent(LeaveWorld(v), Parent("NEXT_CLAUSE", v.current_world, -1, "")))

\* visit_For up to n.iter.visit(self); data.iter is read nowhere
visit_For(v, s) ==
    LET Open(v1) == PushParent(v1, Parent("ITERATES_ON", LastId(v1), -1, ""))
    IN Open(_add_node(v, "FOR_BLOCK", "for " \o s.name \o " in " \o SrcText(s.e),
                      [NoData EXCEPT !.target = s.name], ""))

\* visit_For from there up to n.body.visit(self)
visit_For_body(v, s) ==
    LET Defined(v1) ==
            [v1 EXCEPT !.scopes = define_write(@, s.name, LastId(v1),
                                               v1.current_world).scopes]
        Entered(v1) ==
            Defined(_add_node(v1, "VARIABLE", s.name,
                              [NoData EXCEPT !.mode = "param", !.version = 1],
                              v1.current_world))
    IN Entered(visit_If_body(v))

leave_For(v) == LeaveWorld(v)

\* visit_While up to n.test.visit(self)
visit_While(v, s) ==
    LET Open(v1) == PushParent(v1, Parent("INPUT", LastId(v1), -1, ""))
    IN Open(_add_node(v, "WHILE_BLOCK", "while " \o SrcText(s.e),
                      [NoData EXCEPT !.test = SrcText(s.e)], ""))

\* visit_While from there up to n.body.visit(self)
visit_While_body(v) == visit_If_body(v)

leave_While(v) == LeaveWorld(v)

\* visit_Try up to n.body.visit(self)
visit_Try(v) ==
    LET Entered(v1) == EnterWorld(v1, LastId(v1))
    IN Entered(_add_node(v, "TRY_BLOCK", "try", NoData, ""))

\* the label of an EXCEPT_BLOCK node
ExceptLabel(h) == IF h.e = NoExpr THEN "except" ELSE "except " \o SrcText(h.e)

\* visit_ExceptHandler up to n.type.visit(self); n.name is a cst.AsName, which
\* has no attribute value
visit_ExceptHandler(v, h) ==
    LET Connect(v1) == _connect_to_active_parent(v1, LastId(v1))
        Open(v1) == IF h.e = NoExpr THEN v1
                    ELSE PushParent(v1, Parent("INPUT", LastId(v1), -1, ""))
    IN IF h.name # "" THEN [v EXCEPT !.err = "'AsName' object has no attribute 'value'"]
       ELSE Open(Connect(_add_node(v, "EXCEPT_BLOCK", ExceptLabel(h), NoData, "")))

\* visit_ExceptHandler from there up to n.body.visit(self)
visit_ExceptHandler_body(v, h, except_id) ==
    EnterWorld(IF h.e = NoExpr THEN v ELSE PopParent(v), except_id)

\* what the visitor does when the traversal enters the statement s, up to the
\* visit of its expression ...
VisitStatement(v, s) ==
    CASE s.k = "assign" -> VisitAssignTarget(visit_Assign(v, s), s)
      [] s.k = "return" -> visit_Return(v)
      [] s.k = "def" -> VisitDefNames(visit_FunctionDef(v, s), s, 0)
      [] s.k = "if" -> visit_If(v, s)
      [] s.k = "for" -> visit_For(v, s)
      [] s.k = "while" -> visit_While(v, s)
      [] s.k = "try" -> visit_Try(v)
      [] s.k = "import" -> visit_Import(v, s)
      [] OTHER -> v

\* ... from there up to the visit of its body ...
VisitBlock(v, s) ==
    CASE s.k = "if" -> visit_If_body(v)
      [] s.k = "for" -> visit_For_body(v, s)
      [] s.k = "while" -> visit_While_body(v)
      [] OTHER -> v

RECURSIVE VisitStmt(_, _)
RECURSIVE VisitBody(_, _, _)
RECURSIVE VisitHandlers(_, _, _, _)

\* handler.visit(self) of visit_Try, for handler i and the ones after it
VisitHandlers(v, handlers, i, try_id) ==
    LET Body(v1, except_id) ==
            IF v1.err # "" THEN v1
            ELSE VisitBody(visit_ExceptHandler_body(VisitExpr(v1, handlers[i].e),
                                                    handlers[i], except_id),
                           handlers[i].body, 1)
        Left(v1) == IF v1.err # "" THEN v1 ELSE PopParent(LeaveWorld(v1))
        Opened(v1) == Left(Body(v1, IF v1.err # "" THEN "" ELSE
                                    v1.nodes[Len(v1.nodes)].id))
    IN IF v.err # "" \/ i > Len(handlers) THEN v
       ELSE VisitHandlers(
                Opened(visit_ExceptHandler(
                           PushParent(v, Parent("NEXT_CLAUSE", try_id, i - 1, "")),
                           handlers[i])),
                handlers, i + 1, try_id)

\* ... and when it leaves s; an exception has ended the traversal
LeaveStatement(v, s) ==
    IF v.err # "" THEN v
    ELSE CASE s.k = "assign" -> leave_Assign(v)
           [] s.k = "return" -> leave_Return(v)
           [] s.k = "def" -> leave_FunctionDef(v)
           [] s.k = "if" /\ s.orelse # <<>> /\ ~s.has_else ->
                  LET Closed(v1) == IF v1.err # "" THEN v1 ELSE PopParent(v1)
                  IN Closed(VisitStmt(visit_If_elif(v, s), s.orelse[1]))
           [] s.k = "if" -> visit_If_orelse(v, s)
           [] s.k = "for" -> leave_For(v)
           [] s.k = "while" -> leave_While(v)
           [] s.k = "try" -> VisitHandlers(LeaveWorld(v), s.orelse, 1, v.current_world)
           [] OTHER -> v

\* node.visit(visitor) of libcst, for a statement
VisitStmt(v, s) ==
    LeaveStatement(VisitBody(VisitBlock(VisitExpr(VisitStatement(v, s), s.e), s),
                             s.body, 1),
                   s)

VisitBody(v, stmts, i) ==
    IF v.err # "" \/ i > Len(stmts) THEN v
    ELSE VisitBody(VisitStmt(v, stmts[i]), stmts, i + 1)

(***************************************************************************)
(* The linking pass.                                                       *)
(***************************************************************************)
IsNodeId(nodes, id) == \E i \in 1..Len(nodes) : nodes[i].id = id
NodeOf(nodes, id) == nodes[CHOOSE i \in 1..Len(nodes) : nodes[i].id = id]

\* world_parents of link_calls: "root" and the worlds of definitions only
WorldParent(nodes, w) ==
    IF \E i \in 1..Len(nodes) :
           nodes[i].id = w /\ nodes[i].type \in {"FUNCTION_DEF", "CLASS_DEF"}
    THEN NodeOf(nodes, w).world
    ELSE ""

\* the while loop of link_calls: the definition of call_name nearest to curr
RECURSIVE FindDefinition(_, _, _, _)
FindDefinition(nodes, defs, curr, call_name) ==
    IF curr = "" THEN ""
    ELSE IF <<curr, call_name>> \in DOMAIN defs THEN defs[<<curr, call_name>>]
    ELSE FindDefinition(nodes, defs, WorldParent(nodes, curr), call_name)

link_calls(v) ==
    LET Link(node) ==
            LET target == FindDefinition(v.nodes, v.world_definitions, node.world,
                                         node.label)
            IN IF node.type = "CALL" /\ ~node.data.is_method /\ target # ""
               THEN [node EXCEPT !.data.target_world = target,
                                 !.data.params =
                                     IF IsNodeId(v.nodes, target)
                                     THEN NodeOf(v.nodes, target).data.params ELSE @]
               ELSE node
    IN [v EXCEPT !.nodes = [i \in 1..Len(v.nodes) |-> Link(v.nodes[i])]]

MaxOf(S) == IF S = {} THEN -1 ELSE CHOOSE m \in S : \A x \in S : x <= m

hydrate_unlinked_calls(v) ==
    LET Hydrate(node) ==
            LET incoming_args == SelectSeq(v.edges, LAMBDA e :
                                     e.target = node.id /\ e.type = "ARGUMENT")
                keywords == SelectSeq(incoming_args, LAMBDA e : e.data.keyword # "")
                used == {incoming_args[i].data.index : i \in 1..Len(incoming_args)} \ {-1}
                slots == [i \in 1..(MaxOf(used) + 1) |-> i - 1]
                positional_args == SelectSeq(slots, LAMBDA i : i \in used)
            IN IF node.type = "CALL" /\ node.data.target_world = ""
                  /\ node.data.params = <<>> /\ incoming_args # <<>>
               THEN [node EXCEPT !.data.params =
                        [i \in 1..Len(positional_args) |->
                            [name |-> "arg" \o ToString(positional_args[i]),
                             optional |-> FALSE]]
                        \o [i \in 1..Len(keywords) |->
                            [name |-> keywords[i].data.keyword, optional |-> FALSE]]]
               ELSE node
    IN [v EXCEPT !.nodes = [i \in 1..Len(v.nodes) |-> Hydrate(v.nodes[i])]]

GraphOf(v) == [nodes |-> v.nodes, edges |-> v.edges]

\* a full parse: cst.parse_module(code).visit(WorldVisitor()), then the linking pass
ParseModule(prog, firstId) ==
    LET Linked(v) == IF v.err # "" THEN v ELSE hydrate_unlinked_calls(link_calls(v))
    IN Linked(VisitBody(WorldVisitor("root", firstId), prog, 1))

(***************************************************************************)
(* Injection.                                                              *)
(***************************************************************************)
Snippet(stmts) == [valid |-> TRUE, body |-> stmts]
\* text that cst.parse_module rejects
InvalidSnippet == [valid |-> FALSE, body |-> <<>>]

RECURSIVE populate_symbols(_, _, _, _)
RECURSIVE PopulateNodes(_, _, _, _, _)

\* the for loop of populate_symbols over the nodes of one world
PopulateNodes(graph, world_nodes, i, world_id, scopes) ==
    IF i > Len(world_nodes) THEN scopes
    ELSE LET node == world_nodes[i]
             next == CASE node.type = "VARIABLE" ->
                              define_write(scopes, node.label, node.id, world_id).scopes
                       [] node.type \in {"FUNCTION_DEF", "CLASS_DEF"} ->
                              populate_symbols(graph, node.id, scopes, TRUE)
                       [] OTHER -> scopes
         IN PopulateNodes(graph, world_nodes, i + 1, world_id, next)

\* nested is "parent_stack is not empty"
populate_symbols(graph, world_id, scopes, nested) ==
    LET world_nodes == SelectSeq(graph.nodes, LAMBDA n : n.world = world_id)
        filled == PopulateNodes(graph, world_nodes, 1, world_id, push_scope(scopes))
    IN IF nested THEN pop_scope(filled) ELSE filled

\* the visitor of inject_code after tree.visit(visitor)
InjectVisit(existing_graph, code_snippet, target_world, firstId) ==
    LET visitor == WorldVisitor(target_world, firstId)
        seeded == [visitor EXCEPT
                      !.scopes = populate_symbols(existing_graph, "root", @, FALSE),
                      !.current_world = target_world,
                      !.world_stack = <<target_world>>]
    IN VisitBody(seeded, code_snippet.body, 1)

\* an injection that merges what the visitor built before it failed
inject_code_keeping_partial(existing_graph, code_snippet, target_world, firstId) ==
    IF ~code_snippet.valid
    THEN [ok |-> FALSE, count |-> 0, reason |-> "Syntax Error @ 1:1.",
          graph |-> existing_graph]
    ELSE LET Merged(ok, visitor) ==
                 [ok |-> ok, count |-> IF ok THEN Len(visitor.nodes) ELSE 0,
                  reason |-> visitor.err,
                  graph |-> [nodes |-> existing_graph.nodes \o visitor.nodes,
                             edges |-> existing_graph.edges \o visitor.edges]]
             Visited(visitor) ==
                 IF visitor.err # "" THEN Merged(FALSE, visitor)
                 ELSE Merged(TRUE, hydrate_unlinked_calls(link_calls(visitor)))
         IN Visited(InjectVisit(existing_graph, code_snippet, target_world, firstId))

\* an injection that puts the new nodes and edges in front of the existing ones
inject_code_prepending(existing_graph, code_snippet, target_world, firstId) ==
    IF ~code_snippet.valid
    THEN [ok |-> FALSE, count |-> 0, reason |-> "Syntax Error @ 1:1.",
          graph |-> existing_graph]
    ELSE LET Merged(visitor) ==
                 [ok |-> TRUE, count |-> Len(visitor.nodes), reason |-> "",
                  graph |-> [nodes |-> visitor.nodes \o existing_graph.nodes,
                             edges |-> visitor.edges \o existing_graph.edges]]
             Visited(visitor) ==
                 IF visitor.err # ""
                 THEN [ok |-> FALSE, count |-> 0, reason |-> visitor.err,
                       graph |-> existing_graph]
                 ELSE Merged(hydrate_unlinked_calls(link_calls(visitor)))
         IN Visited(InjectVisit(existing_graph, code_snippet, target_world, firstId))

\* [ok, count, reason, graph]: the pair the code returns and the graph it leaves
inject_code(existing_graph, code_snippet, target_world, firstId) ==
    IF ~code_snippet.valid
    THEN [ok |-> FALSE, count |-> 0, reason |-> "Syntax Error @ 1:1.",
          graph |-> existing_graph]
    ELSE LET Merged(visitor) ==
                 [ok |-> TRUE, count |-> Len(visitor.nodes), reason |-> "",
                  graph |-> [nodes |-> existing_graph.nodes \o visitor.nodes,
                             edges |-> existing_graph.edges \o visitor.edges]]
             Visited(visitor) ==
                 IF visitor.err # ""
                 THEN [ok |-> FALSE, count |-> 0, reason |-> visitor.err,
                       graph |-> existing_graph]
                 ELSE Merged(hydrate_unlinked_calls(link_calls(visitor)))
         IN Visited(InjectVisit(existing_graph, code_snippet, target_world, firstId))

(***************************************************************************)
(* Graph mutation helpers.                                                 *)
(***************************************************************************)
LiteralNode(id, label, world) ==
    [id |-> id, type |-> "LITERAL", label |-> label, world |-> world, data |-> NoData]

\* add_edge without the search for an existing edge
add_edge_always(graph, source, target, edge_type, data) ==
    [graph EXCEPT !.edges = Append(@, NewEdge(source, target, edge_type, data))]

add_edge(graph, source, target, edge_type, data) ==
    IF HasEdge(graph.edges, source, target, edge_type) THEN graph
    ELSE [graph EXCEPT !.edges = Append(@, NewEdge(source, target, edge_type, data))]

\* edge.get('data', {}).get('index', 0)
IndexOr0(e) == IF e.data.index = -1 THEN 0 ELSE e.data.index

\* add_list_item that gives the new element the index 0
add_list_item_at_0(graph, list_node_id, value, firstId) ==
    IF ~\E i \in 1..Len(graph.nodes) :
            graph.nodes[i].id = list_node_id /\ graph.nodes[i].type = "LIST_CONSTRUCTOR"
    THEN graph
    ELSE LET list_node == NodeOf(graph.nodes, list_node_id)
             literal_id == NodeId("LITERAL", firstId)
         IN [nodes |-> Append(graph.nodes, LiteralNode(literal_id, value, list_node.world)),
             edges |-> Append(graph.edges,
                              NewEdge(literal_id, list_node_id, "LIST_ELEMENT",
                                      [NoEdgeData EXCEPT !.index = 0]))]

add_list_item(graph, list_node_id, value, firstId) ==
    IF ~\E i \in 1..Len(graph.nodes) :
            graph.nodes[i].id = list_node_id /\ graph.nodes[i].type = "LIST_CONSTRUCTOR"
    THEN graph
    ELSE LET list_node == NodeOf(graph.nodes, list_node_id)
             max_index == MaxOf({IndexOr0(graph.edges[i]) : i \in
                              {j \in 1..Len(graph.edges) :
                                   graph.edges[j].target = list_node_id
                                   /\ graph.edges[j].type = "LIST_ELEMENT"}})
             literal_id == NodeId("LITERAL", firstId)
         IN [nodes |-> Append(graph.nodes, LiteralNode(literal_id, value, list_node.world)),
             edges |-> Append(graph.edges,
                              NewEdge(literal_id, list_node_id, "LIST_ELEMENT",
                                      [NoEdgeData EXCEPT !.index = max_index + 1]))]

add_dict_pair(graph, dict_node_id, key, value, firstId) ==
    IF ~\E i \in 1..Len(graph.nodes) :
            graph.nodes[i].id = dict_node_id /\ graph.nodes[i].type = "DICT_CONSTRUCTOR"
    THEN graph
    ELSE LET dict_node == NodeOf(graph.nodes, dict_node_id)
             max_index == MaxOf({IndexOr0(graph.edges[i]) : i \in
                              {j \in 1..Len(graph.edges) :
                                   graph.edges[j].target = dict_node_id
                                   /\ graph.edges[j].type \in {"DICT_KEY", "DICT_VALUE"}}})
             key_literal_id == NodeId("LITERAL", firstId)
             value_literal_id == NodeId("LITERAL", firstId + 1)
             edge_data == [NoEdgeData EXCEPT !.index = max_index + 1]
         IN [nodes |-> graph.nodes \o
                           <<LiteralNode(key_literal_id, key, dict_node.world),
                             LiteralNode(value_literal_id, value, dict_node.world)>>,
             edges |-> graph.edges \o
                           <<NewEdge(key_literal_id, dict_node_id, "DICT_KEY", edge_data),
                             NewEdge(value_literal_id, dict_node_id, "DICT_VALUE",
                                     edge_data)>>]

\* a port value as typed: body between a pair of quote characters (or none)
PortValue(quote, body) == [quote |-> quote, body |-> body]
\* new_value.strip() less one pair of enclosing quotes
CleanValue(new_value) == new_value.body

update_port_literal(graph, node_id, port_id, new_value, firstId) ==
    IF ~IsNodeId(graph.nodes, node_id) THEN graph
    ELSE LET target_node == NodeOf(graph.nodes, node_id)
             port_edges == {i \in 1..Len(graph.edges) :
                                graph.edges[i].target = node_id
                                /\ graph.edges[i].data.port_name = port_id}
             \* the first matching edge ends the search
             first == CHOOSE i \in port_edges : \A j \in port_edges : i <= j
             lits == IF port_edges = {} THEN {}
                     ELSE {i \in 1..Len(graph.nodes) :
                               graph.nodes[i].id = graph.edges[first].source
                               /\ graph.nodes[i].type = "LITERAL"}
             existing_literal == CHOOSE i \in lits : \A j \in lits : i <= j
             literal_id == NodeId("LITERAL", firstId)
         IN IF lits # {}
            THEN [graph EXCEPT !.nodes[existing_literal].label = CleanValue(new_value)]
            ELSE [nodes |-> Append(graph.nodes,
                                   LiteralNode(literal_id, CleanValue(new_value),
                                               target_node.world)),
                  edges |-> Append(graph.edges,
                                   NewEdge(literal_id, node_id, "DATA_FLOW",
                                           [NoEdgeData EXCEPT !.port_name = port_id]))]

\* remove_nodes without the filter on the edges
remove_nodes_keeping_edges(graph, node_ids) ==
    LET Kept(n) == n.id \notin node_ids
    IN [graph EXCEPT !.nodes = SelectSeq(@, Kept)]

remove_nodes(graph, node_ids) ==
    LET Kept(n) == n.id \notin node_ids
        Untouched(e) == e.source \notin node_ids /\ e.target \notin node_ids
    IN [nodes |-> SelectSeq(graph.nodes, Kept), edges |-> SelectSeq(graph.edges, Untouched)]

\* the position of the first node that has the id, or 0
FirstNode(nodes, node_id) ==
    LET found == {i \in 1..Len(nodes) : nodes[i].id = node_id}
    IN IF found = {} THEN 0 ELSE CHOOSE i \in found : \A j \in found : i <= j

\* the loop over the nodes that update_list_item and update_dict_pair end
\* with: the first node that has the id and is a LITERAL takes the label
RelabelLiteral(graph, node_id, new_label) ==
    LET found == {i \in 1..Len(graph.nodes) :
                      graph.nodes[i].id = node_id /\ graph.nodes[i].type = "LITERAL"}
        first == CHOOSE i \in found : \A j \in found : i <= j
    IN IF found = {} THEN graph ELSE [graph EXCEPT !.nodes[first].label = new_label]

\* the first node that has the id ends the search, LITERAL or not
update_node_literal(graph, node_id, new_label) ==
    LET Updated(i) ==
            IF i = 0 \/ graph.nodes[i].type # "LITERAL" THEN graph
            ELSE [graph EXCEPT !.nodes[i].label = new_label]
    IN Updated(FirstNode(graph.nodes, node_id))

\* edge_type is "" for None
remove_edge(graph, source, target, edge_type) ==
    LET Kept(e) == ~(e.source = source /\ e.target = target
                     /\ (edge_type = "" \/ e.type = edge_type))
    IN [graph EXCEPT !.edges = SelectSeq(@, Kept)]

\* the positions of the edges of a type into a node that carry an index
IndexedEdges(graph, node_id, edge_type, index) ==
    {i \in 1..Len(graph.edges) :
         graph.edges[i].target = node_id /\ graph.edges[i].type = edge_type
         /\ graph.edges[i].data.index = index}

update_list_item(graph, list_node_id, index, new_value) ==
    LET found == IndexedEdges(graph, list_node_id, "LIST_ELEMENT", index)
        \* the first matching edge ends the search
        target_edge == CHOOSE i \in found : \A j \in found : i <= j
    IN IF found = {} THEN graph
       ELSE RelabelLiteral(graph, graph.edges[target_edge].source, new_value)

\* what Python hands back: the value of a return statement, or None when the
\* function body ends without one
Returns(g) == <<g>>
ReturnsNone == <<>>

\* key_value and value_value are <<>> for None and <<text>> otherwise; the
\* search keeps the last matching edge of each type.  The body changes graph
\* in place and ends without a return statement.
update_dict_pair(graph, dict_node_id, index, key_value, value_value) ==
    LET key_edges == IndexedEdges(graph, dict_node_id, "DICT_KEY", index)
        value_edges == IndexedEdges(graph, dict_node_id, "DICT_VALUE", index)
        key_edge == CHOOSE i \in key_edges : \A j \in key_edges : i >= j
        value_edge == CHOOSE i \in value_edges : \A j \in value_edges : i >= j
        WithValue(g) ==
            IF value_value = <<>> \/ value_edges = {} THEN g
            ELSE RelabelLiteral(g, g.edges[value_edge].source, value_value[1])
        WithKey(g) ==
            IF key_value = <<>> \/ key_edges = {} THEN g
            ELSE RelabelLiteral(g, g.edges[key_edge].source, key_value[1])
    IN [graph |-> WithValue(WithKey(graph)), returned |-> ReturnsNone]

(***************************************************************************)
(* Synthesizer.  The emitted text is a sequence of lines; a line is        *)
(* [indent, k, node, name, params, e]: its indentation level, the kind of  *)
(* statement, the node it was written for, and the statement's parts, the  *)
(* expression as a tree.                                                   *)
(***************************************************************************)
Line(indent, k, node, name, params, e) ==
    [indent |-> indent, k |-> k, node |-> node, name |-> name, params |-> params, e |-> e]

\* the texts float() accepts among the literals of the model
Numerals == {ToString(n) : n \in 0..20}
\* the literal texts that start with a quote character
QuotedTexts == {"'a'"}

\* the placeholder None, and the text "pass" _synth_expr gives for any other node
NoneExpr == [k |-> "None", name |-> "None", args |-> <<>>, kws |-> <<>>]
PassExpr == [k |-> "pass", name |-> "pass", args |-> <<>>, kws |-> <<>>]
\* the recursion of _synth_expr did not end: Python raises RecursionError
RecursionError == [k |-> "error", name |-> "RecursionError", args |-> <<>>, kws |-> <<>>]

\* a stable sort of edges by (data.index or 0), as list.sort does
SortKey(e) == IF e.data.index = -1 THEN 0 ELSE e.data.index
RECURSIVE InsertByIndex(_, _)
InsertByIndex(sorted, e) ==
    IF sorted = <<>> THEN <<e>>
    ELSE IF SortKey(Top(sorted)) <= SortKey(e) THEN Append(sorted, e)
    ELSE Append(InsertByIndex(Pop(sorted), e), Top(sorted))
RECURSIVE SortByIndex(_)
SortByIndex(edges) ==
    IF edges = <<>> THEN <<>> ELSE InsertByIndex(SortByIndex(Pop(edges)), Top(edges))

_get_inputs(graph, nid, edge_types) ==
    LET edges == SortByIndex(SelectSeq(graph.edges, LAMBDA e :
                                 e.target = nid /\ e.type \in edge_types))
    IN [i \in 1..Len(edges) |-> edges[i].source]

_get_outputs(graph, nid, edge_types) ==
    LET edges == SortByIndex(SelectSeq(graph.edges, LAMBDA e :
                                 e.source = nid /\ e.type \in edge_types))
    IN [i \in 1..Len(edges) |-> edges[i].target]

\* the value a dict built from the edges holds for a key: the last edge wins
LastSource(edges) == Top(edges).source

\* ArgSource that looks at the wired arguments before the port literal
ArgSource_wired_first(name, port_literal, by_keyword, by_index) ==
    IF by_keyword # <<>> THEN [kw |-> name, id |-> Top(by_keyword).source]
    ELSE IF by_index # <<>> THEN [kw |-> "", id |-> Top(by_index).source]
    ELSE IF port_literal # <<>> THEN [kw |-> name, id |-> Top(port_literal).source]
    ELSE [kw |-> "", id |-> ""]

\* the source wired to a parameter of a CALL node, [kw, id]: its port literal,
\* else the argument with its keyword, else the argument at its index, else None
ArgSource(name, port_literal, by_keyword, by_index) ==
    IF port_literal # <<>> THEN [kw |-> name, id |-> LastSource(port_literal)]
    ELSE IF by_keyword # <<>> THEN [kw |-> name, id |-> LastSource(by_keyword)]
    ELSE IF by_index # <<>> THEN [kw |-> "", id |-> LastSource(by_index)]
    ELSE [kw |-> "", id |-> ""]

\* the sources of the arguments of a CALL node, one for each of its params
CallSources(graph, node) ==
    LET params == node.data.params
        Wired(P(_)) == SelectSeq(graph.edges, LAMBDA e :
                           e.target = node.id /\ e.type = "ARGUMENT" /\ P(e))
        PortLiteral(name) == SelectSeq(graph.edges, LAMBDA e :
                                 e.target = node.id /\ e.type = "DATA_FLOW"
                                 /\ e.data.port_name # "" /\ e.data.port_name = name)
    IN [i \in 1..Len(params) |->
           ArgSource(params[i].name, PortLiteral(params[i].name),
                     Wired(LAMBDA e : e.data.keyword = params[i].name),
                     Wired(LAMBDA e : e.data.keyword = "" /\ e.data.index = i - 1))]

\* the nodes a node's expression is made of, in the order of its parts
SynthInputs(graph, node) ==
    CASE node.type = "OPERATOR" ->
             LET Two(inputs) == [i \in 1..2 |-> IF Len(inputs) >= i THEN inputs[i] ELSE ""]
             IN Two(_get_inputs(graph, node.id, {"OPERAND"}))
      \* the arguments, and after them the receiver of a method call
      [] node.type = "CALL" ->
             LET Ids(sources) == [i \in 1..Len(sources) |-> sources[i].id]
                 Receiver(obj_id_list) ==
                     IF node.data.is_method /\ obj_id_list # <<>>
                     THEN <<obj_id_list[1]>> ELSE <<>>
             IN Ids(CallSources(graph, node))
                \o Receiver(_get_inputs(graph, node.id, {"ATTRIBUTE_VALUE"}))
      [] node.type = "ATTRIBUTE" ->
             LET One(val_id_list) == <<IF val_id_list # <<>> THEN val_id_list[1] ELSE "">>
             IN One(_get_inputs(graph, node.id, {"ATTRIBUTE_VALUE"}))
      [] node.type = "LIST_CONSTRUCTOR" -> _get_inputs(graph, node.id, {"LIST_ELEMENT"})
      [] node.type = "DICT_CONSTRUCTOR" ->
             LET Zip(keys, values) ==
                     [i \in 1..(2 * (IF Len(keys) < Len(values) THEN Len(keys)
                                     ELSE Len(values))) |->
                         IF i % 2 = 1 THEN keys[(i + 1) \div 2] ELSE values[i \div 2]]
             IN Zip(_get_inputs(graph, node.id, {"DICT_KEY"}),
                    _get_inputs(graph, node.id, {"DICT_VALUE"}))
      [] OTHER -> <<>>

\* the expression of a node, given the expressions of its parts
SynthNode(graph, node, parts) ==
    CASE node.type = "LITERAL" ->
             IF node.label \in QuotedTexts \/ node.label \in Numerals
             THEN Lit(node.label)
             ELSE Lit("\"" \o node.label \o "\"")
      [] node.type = "VARIABLE" -> Name(node.label)
      [] node.type = "OPERATOR" -> Bin(node.label, parts[1], parts[2])
      [] node.type = "CALL" ->
             LET Keywords(sources) == [i \in 1..Len(sources) |-> sources[i].kw]
                 call_str(kws) ==
                     [k |-> "call", name |-> node.label,
                      args |-> SubSeq(parts, 1, Len(kws)), kws |-> kws]
                 Method(call) ==
                     IF Len(parts) > Len(call.args) THEN Dot(parts[Len(parts)], call)
                     ELSE call
             IN Method(call_str(Keywords(CallSources(graph, node))))
      [] node.type = "ATTRIBUTE" -> Dot(parts[1], Name(node.label))
      [] node.type = "LIST_CONSTRUCTOR" -> ListE(parts)
      [] node.type = "DICT_CONSTRUCTOR" -> DictE(parts)
      [] OTHER -> PassExpr

RECURSIVE _synth_expr(_, _, _)
RECURSIVE SynthParts(_, _, _, _)

\* the recursive calls of _synth_expr for the inputs of a node, in order; a
\* call that raises ends them
SynthParts(graph, inputs, i, calling) ==
    LET Rest(part) ==
            IF part = RecursionError THEN <<part>>
            ELSE <<part>> \o SynthParts(graph, inputs, i + 1, calling)
    IN IF i > Len(inputs) THEN <<>> ELSE Rest(_synth_expr(graph, inputs[i], calling))

\* calling holds the nodes whose _synth_expr calls are on the stack: a node
\* that is reached from itself is reached again without end, until Python
\* raises RecursionError
_synth_expr(graph, nid, calling) ==
    IF ~IsNodeId(graph.nodes, nid) THEN NoneExpr
    ELSE IF nid \in calling THEN RecursionError
    ELSE LET Built(node, parts) ==
                 IF parts # <<>> /\ Top(parts) = RecursionError THEN RecursionError
                 ELSE SynthNode(graph, node, parts)
             Node(node) ==
                 Built(node, SynthParts(graph, SynthInputs(graph, node), 1,
                                        calling \cup {nid}))
         IN Node(NodeOf(graph.nodes, nid))


\* list.sort(key=sort_key) of _write_world: stable, by the priority of the type
SortForExecution(world_nodes) ==
    SelectSeq(world_nodes, LAMBDA n : n.type = "CALL")
    \o SelectSeq(world_nodes, LAMBDA n : n.type = "VARIABLE")
    \o SelectSeq(world_nodes, LAMBDA n : n.type = "RETURN")
    \o SelectSeq(world_nodes, LAMBDA n : n.type \notin {"CALL", "VARIABLE", "RETURN"})

\* the order in which _write_world goes through the nodes of a world
WorldOrder(graph, world_id) ==
    LET Sorted(world_nodes) ==
            IF world_id # "root" THEN SortForExecution(world_nodes) ELSE world_nodes
    IN Sorted(SelectSeq(graph.nodes, LAMBDA n : n.world = world_id))

BodyOrPass(body, indent) ==
    IF body # <<>> THEN body ELSE <<Line(indent, "pass", "", "", <<>>, NoExpr)>>

\* what a writer gives back: the lines it wrote and processed_ids afterwards
Written(lines, processed) == [lines |-> lines, processed |-> processed]
Join(lines, rest) == Written(lines \o rest.lines, rest.processed)

\* a statement that was not written: the exception Python raised in its place
Error(indent, node_id, exception) == Line(indent, "error", node_id, exception, <<>>, NoExpr)

RECURSIVE _write_world(_, _, _, _)
RECURSIVE WriteNodes(_, _, _, _, _)
RECURSIVE WriteHandlers(_, _, _, _)
RECURSIVE _write_node(_, _, _, _)
RECURSIVE _synth_if_chain(_, _, _, _, _)

_synth_if_chain(graph, node, indent, processed_ids, calling) ==
    LET kind == CASE node.type = "IF_BLOCK" -> "if"
                  [] node.type = "ELIF_BLOCK" -> "elif"
                  [] node.type = "ELSE_BLOCK" -> "else"
                  [] OTHER -> ""
        Header(test_input) ==
            IF kind = "" THEN <<>>
            ELSE <<Line(indent, kind, node.id, "", <<>>,
                        IF kind = "else" THEN NoExpr
                        ELSE IF test_input = <<>> THEN Name("True")
                        ELSE _synth_expr(graph, test_input[1], {}))>>
        Chain(body, next_ids) ==
            Join(Header(_get_inputs(graph, node.id, {"INPUT"}))
                     \o BodyOrPass(body.lines, indent + 1),
                 IF next_ids # <<>> /\ IsNodeId(graph.nodes, next_ids[1])
                 THEN _synth_if_chain(graph, NodeOf(graph.nodes, next_ids[1]), indent,
                                      body.processed, calling \cup {node.id})
                 ELSE Written(<<>>, body.processed))
    IN IF node.id \in calling
       THEN Written(<<Line(indent, "error", node.id, "RecursionError", <<>>, NoExpr)>>,
                    processed_ids)
       ELSE Chain(_write_world(graph, node.id, indent + 1, processed_ids \cup {node.id}),
                  _get_outputs(graph, node.id, {"NEXT_CLAUSE"}))

\* the loop over except_ids of _write_node, from the i-th on; ex_node is None
\* for an id no node has, and None['label'] raises TypeError
WriteHandlers(graph, except_ids, i, indent) ==
    LET Handler(ex_node) ==
            <<Line(indent, "except", ex_node.id, ex_node.label, <<>>, NoExpr)>>
            \o BodyOrPass(_write_world(graph, ex_node.id, indent + 1, {}).lines, indent + 1)
            \o WriteHandlers(graph, except_ids, i + 1, indent)
    IN IF i > Len(except_ids) THEN <<>>
       ELSE IF ~IsNodeId(graph.nodes, except_ids[i])
       THEN <<Error(indent, except_ids[i], "TypeError")>>
       ELSE Handler(NodeOf(graph.nodes, except_ids[i]))

_write_node(graph, node, indent, processed_ids) ==
    LET ntype == node.type
        Statement(k, params, e) == <<Line(indent, k, node.id, node.label, params, e)>>
        \* a definition's body starts from an empty processed_ids of its own
        Block(body) == BodyOrPass(body.lines, indent + 1)
        is_nested == \E i \in 1..Len(graph.edges) :
                         graph.edges[i].source = node.id
                         /\ graph.edges[i].type \notin {"CLOSURE_OF", "NEXT_CLAUSE"}
        Lines(inputs, expr) ==
            CASE ntype = "IMPORT" -> Statement("import", <<>>, NoExpr)
              [] ntype = "FUNCTION_DEF" ->
                     Statement("def", [i \in 1..Len(node.data.params) |->
                                          node.data.params[i].name], NoExpr)
                     \o Block(_write_world(graph, node.id, indent + 1, {}))
              [] ntype = "CLASS_DEF" ->
                     Statement("class", <<>>, NoExpr)
                     \o Block(_write_world(graph, node.id, indent + 1, {}))
              [] ntype = "VARIABLE" /\ node.data.mode = "write" ->
                     IF inputs = <<>> THEN <<>> ELSE Statement("assign", <<>>, expr)
              [] ntype = "CALL" ->
                     IF is_nested THEN <<>>
                     ELSE <<Line(indent, "expr", node.id, "", <<>>, expr)>>
              [] ntype = "RETURN" ->
                     <<Line(indent, "return", node.id, "", <<>>, expr)>>
              \* [0] of an empty list raises IndexError
              [] ntype = "FOR_BLOCK" ->
                     IF inputs = <<>> THEN <<Error(indent, node.id, "IndexError")>>
                     ELSE <<Line(indent, "for", node.id, node.data.target, <<>>, expr)>>
                          \o Block(_write_world(graph, node.id, indent + 1, {}))
              [] ntype = "WHILE_BLOCK" ->
                     IF inputs = <<>> THEN <<Error(indent, node.id, "IndexError")>>
                     ELSE <<Line(indent, "while", node.id, "", <<>>, expr)>>
                          \o Block(_write_world(graph, node.id, indent + 1, {}))
              [] ntype = "TRY_BLOCK" ->
                     <<Line(indent, "try", node.id, "", <<>>, NoExpr)>>
                     \o Block(_write_world(graph, node.id, indent + 1, {}))
                     \o WriteHandlers(graph, inputs, 1, indent)
              [] OTHER -> <<>>
        \* the statement holds the expression of the first of inputs
        Expr(inputs) ==
            Lines(inputs, IF inputs = <<>> THEN NoExpr
                          ELSE _synth_expr(graph, inputs[1], {}))
    IN IF ntype = "IF_BLOCK"
       THEN _synth_if_chain(graph, node, indent, processed_ids, {})
       ELSE Written(Expr(CASE ntype = "CALL" -> <<node.id>>
                           [] ntype \in {"RETURN", "WHILE_BLOCK"} ->
                                  _get_inputs(graph, node.id, {"INPUT"})
                           [] ntype = "VARIABLE" ->
                                  _get_inputs(graph, node.id, {"WRITES_TO"})
                           [] ntype = "FOR_BLOCK" ->
                                  _get_inputs(graph, node.id, {"ITERATES_ON"})
                           \* except_ids, which processed_ids takes
                           [] ntype = "TRY_BLOCK" ->
                                  _get_outputs(graph, node.id, {"NEXT_CLAUSE"})
                           [] OTHER -> <<>>),
                    IF ntype # "TRY_BLOCK" THEN processed_ids
                    ELSE processed_ids
                         \cup {e.target : e \in {graph.edges[i] : i \in
                                   {j \in 1..Len(graph.edges) :
                                        graph.edges[j].source = node.id
                                        /\ graph.edges[j].type = "NEXT_CLAUSE"}}})

\* the for loop of _write_world, over the first n nodes of the world
WriteNodes(graph, world_nodes, n, indent, processed_ids) ==
    LET Next(done, node) ==
            IF node.id \in done.processed THEN done
            ELSE Join(done.lines,
                      _write_node(graph, node, indent, done.processed \cup {node.id}))
    IN IF n = 0 THEN Written(<<>>, processed_ids)
       ELSE Next(WriteNodes(graph, world_nodes, n - 1, indent, processed_ids),
                 world_nodes[n])

_write_world(graph, world_id, indent, processed_ids) ==
    LET Loop(world_nodes) ==
            WriteNodes(graph, world_nodes, Len(world_nodes), indent, processed_ids)
    IN Loop(WorldOrder(graph, world_id))

\* the exception that the synthesis of an expression ended with, or ""
RECURSIVE ErrorOf(_)
ErrorOf(e) ==
    LET First(raised) ==
            IF raised = {} THEN ""
            ELSE ErrorOf(e.args[CHOOSE i \in raised : \A j \in raised : i <= j])
    IN IF e.k = "error" THEN e.name
       ELSE First({i \in 1..Len(e.args) : ErrorOf(e.args[i]) # ""})

\* the exception a line stands for, or ""
Raised(line) == IF line.k = "error" THEN line.name ELSE ErrorOf(line.e)

\* an exception raised while a line was written leaves generate_code through
\* every caller: nothing is returned, and the lines are the exception alone
Propagate(lines) ==
    LET First(raised) ==
            IF raised = {} THEN lines
            ELSE <<Error(0, lines[CHOOSE i \in raised : \A j \in raised : i <= j].node,
                         Raised(lines[CHOOSE i \in raised : \A j \in raised : i <= j]))>>
    IN First({i \in 1..Len(lines) : Raised(lines[i]) # ""})

generate_code(graph) ==
    LET Root(import_lines) ==
            Join(import_lines.lines, _write_world(graph, "root", 0, import_lines.processed))
    IN Propagate(Root(_write_world(graph, "world_imports", 0, {})).lines)

(***************************************************************************)
(* Execution: what exec(code) prints, for the programs of the model.  The  *)
(* emitted lines are read back as statements, and a program is run on a    *)
(* machine [frames, funcs, out, err, val, vals, ret, depth]: the frames    *)
(* hold the variables, funcs the function objects, out what print wrote,   *)
(* err the exception that ended the run.  Integers, strings and None are   *)
(* the values; + - * are defined on integers.                              *)
(***************************************************************************)
\* the statement of an emitted line, body being the statements indented under it
StatementOf(line, body) ==
    CASE line.k = "assign" -> Assign(line.name, line.e)
      [] line.k = "expr" -> ExprS(line.e)
      [] line.k = "return" -> Return(line.e)
      [] line.k = "def" ->
             Def(line.name, [i \in 1..Len(line.params) |-> Param(line.params[i])], body)
      [] line.k = "if" -> If(line.e, body)
      [] line.k = "import" -> Import(line.name)
      [] line.k = "pass" -> Pass
      [] OTHER -> [Pass EXCEPT !.k = line.k]

\* [stmts, next]: the block at this indentation that starts at line i, and
\* the line after it
RECURSIVE ReadBlock(_, _, _)
ReadBlock(lines, i, indent) ==
    LET Rest(s, rest) == [stmts |-> <<s>> \o rest.stmts, next |-> rest.next]
        Body(body) == Rest(StatementOf(lines[i], body.stmts),
                           ReadBlock(lines, body.next, indent))
    IN IF i > Len(lines) \/ lines[i].indent < indent
       THEN [stmts |-> <<>>, next |-> i]
       ELSE Body(IF lines[i].k \in {"def", "class", "if", "elif", "else"}
                 THEN ReadBlock(lines, i + 1, indent + 1)
                 ELSE [stmts |-> <<>>, next |-> i + 1])

ReadCode(lines) == ReadBlock(lines, 1, 0).stmts

IntVal(n) == [t |-> "int", n |-> n, s |-> ""]
NoneVal == [t |-> "none", n |-> 0, s |-> ""]
StrVal(s) == [t |-> "str", n |-> 0, s |-> s]
FnVal(i) == [t |-> "fn", n |-> i, s |-> ""]
BoolVal(b) == [t |-> "bool", n |-> IF b THEN 1 ELSE 0, s |-> ""]

LitValue(text) ==
    IF text \in Numerals THEN IntVal(CHOOSE n \in 0..20 : ToString(n) = text)
    ELSE StrVal(text)

Truthy(val) ==
    CASE val.t \in {"int", "bool"} -> val.n # 0
      [] val.t = "str" -> val.s \notin {"''", "\"\""}
      [] val.t = "none" -> FALSE
      [] OTHER -> TRUE

NoVars == [n \in {} |-> NoneVal]
Frame(vars, parent, locals) == [vars |-> vars, parent |-> parent, locals |-> locals]
Machine ==
    [frames |-> <<Frame(NoVars, 0, {})>>, funcs |-> <<>>, out |-> <<>>, err |-> "",
     val |-> NoneVal, vals |-> <<>>, ret |-> FALSE, depth |-> 0]

Raise(st, type, what) == [st EXCEPT !.err = type \o ": " \o what]

\* the names a function body binds: they are local to the function
RECURSIVE AssignedNames(_, _)
AssignedNames(stmts, i) ==
    IF i > Len(stmts) THEN {}
    ELSE (CASE stmts[i].k \in {"assign", "def"} -> {stmts[i].name}
            [] stmts[i].k = "if" ->
                   AssignedNames(stmts[i].body \o stmts[i].orelse, 1)
            [] OTHER -> {})
         \cup AssignedNames(stmts, i + 1)

\* [kind, val]: the value of a name read in frame f, looked up from frame start
RECURSIVE Lookup(_, _, _, _)
Lookup(frames, f, name, start) ==
    IF f = 0
    THEN CASE name \in {"True", "False"} -> [kind |-> "ok", val |-> BoolVal(name = "True")]
           [] name = "None" -> [kind |-> "ok", val |-> NoneVal]
           [] OTHER -> [kind |-> "NameError", val |-> NoneVal]
    ELSE IF name \in DOMAIN frames[f].vars
         THEN [kind |-> "ok", val |-> frames[f].vars[name]]
    ELSE IF name \in frames[f].locals
         THEN [kind |-> IF f = start THEN "UnboundLocalError" ELSE "NameError",
               val |-> NoneVal]
    ELSE Lookup(frames, frames[f].parent, name, start)

BinaryValue(st, op, l, r) ==
    IF \/ l.t \notin {"int", "bool"}
       \/ r.t \notin {"int", "bool"}
       \/ op \notin {"+", "-", "*"}
    THEN Raise(st, "TypeError", op)
    ELSE [st EXCEPT !.val = IntVal(CASE op = "+" -> l.n + r.n
                                     [] op = "-" -> l.n - r.n
                                     [] OTHER -> l.n * r.n)]

\* no statement of the program can be compiled: exec raises before it runs any
RECURSIVE BadExpr(_)
BadExpr(e) ==
    \/ e.k \in {"pass", "error"}
    \/ \E i \in 1..Len(e.args) : BadExpr(e.args[i])

RECURSIVE HasSyntaxError(_, _)
HasSyntaxError(stmts, in_function) ==
    \E i \in 1..Len(stmts) :
        \/ stmts[i].k \notin {"assign", "expr", "return", "def", "if", "import", "pass"}
        \/ stmts[i].k = "return" /\ ~in_function
        \/ BadExpr(stmts[i].e)
        \/ HasSyntaxError(stmts[i].body \o stmts[i].orelse,
                          in_function \/ stmts[i].k = "def")

RECURSIVE Eval(_, _, _)
RECURSIVE EvalArgs(_, _, _, _, _)
RECURSIVE ExecStmt(_, _, _)
RECURSIVE ExecBody(_, _, _, _)

\* the call of function object number fn with the values st.vals
CallFunction(st, fn) ==
    LET func == st.funcs[fn]
        Returned(st1) ==
            IF st1.err # "" THEN st1
            ELSE [st1 EXCEPT !.val = IF st1.ret THEN @ ELSE NoneVal,
                             !.ret = FALSE, !.depth = @ - 1]
    IN IF Len(st.vals) # Len(func.params) THEN Raise(st, "TypeError", func.name)
       \* no program of the model recurses and ends: a chain of calls longer
       \* than the number of function objects does not end
       ELSE IF st.depth > Len(st.funcs) THEN Raise(st, "RecursionError", func.name)
       ELSE Returned(ExecBody(
                [st EXCEPT !.frames = Append(@, Frame(
                               [n \in {func.params[i].name : i \in 1..Len(func.params)} |->
                                   st.vals[CHOOSE i \in 1..Len(func.params) :
                                               func.params[i].name = n]],
                               func.env, func.locals)),
                           !.depth = @ + 1],
                Len(st.frames) + 1, func.body, 1))

\* the call e made in frame f, once its arguments are evaluated into st.vals
Invoke(st, f, e) ==
    LET Called(callee) ==
            IF callee.kind = "ok" /\ callee.val.t = "fn" THEN CallFunction(st, callee.val.n)
            ELSE IF callee.kind = "ok" THEN Raise(st, "TypeError", e.name)
            ELSE IF e.name = "print"
                 THEN [st EXCEPT !.out = Append(@, st.vals), !.val = NoneVal]
            ELSE Raise(st, callee.kind, e.name)
    IN IF st.err # "" THEN st ELSE Called(Lookup(st.frames, f, e.name, f))

EvalArgs(st, f, e, i, vals) ==
    LET Next(st1) == EvalArgs(st1, f, e, i + 1, Append(vals, st1.val))
    IN IF st.err # "" THEN st
       ELSE IF i > Len(e.args) THEN [st EXCEPT !.vals = vals]
       ELSE Next(Eval(st, f, e.args[i]))

\* st with val the value of e in frame f
Eval(st, f, e) ==
    LET Read(var) == IF var.kind = "ok" THEN [st EXCEPT !.val = var.val]
                     ELSE Raise(st, var.kind, e.name)
        Right(st1) ==
            LET Both(st2) == IF st2.err # "" THEN st2
                             ELSE BinaryValue(st2, e.name, st1.val, st2.val)
            IN Both(Eval(st1, f, e.args[2]))
    IN IF st.err # "" THEN st
       ELSE CASE e.k = "lit" -> [st EXCEPT !.val = LitValue(e.name)]
              [] e.k = "name" -> Read(Lookup(st.frames, f, e.name, f))
              [] e.k = "bin" -> Right(Eval(st, f, e.args[1]))
              [] e.k = "call" -> Invoke(EvalArgs(st, f, e, 1, <<>>), f, e)
              [] e.k \in {"none", "None"} -> [st EXCEPT !.val = NoneVal]
              [] OTHER -> Raise(st, "TypeError", e.k)

\* the statement s in frame f, once its expression is evaluated into st.val
Finish(st, f, s) ==
    LET Bind(val) == [st EXCEPT !.frames[f].vars = (s.name :> val) @@ @]
    IN IF st.err # "" THEN st
       ELSE CASE s.k = "assign" -> Bind(st.val)
              [] s.k = "return" -> [st EXCEPT !.ret = TRUE]
              [] s.k = "def" ->
                     [Bind(FnVal(Len(st.funcs) + 1)) EXCEPT
                         !.funcs = Append(@, [name |-> s.name, params |-> s.params,
                                              body |-> s.body, env |-> f,
                                              locals |-> {s.params[i].name :
                                                             i \in 1..Len(s.params)}
                                                         \cup AssignedNames(s.body, 1)])]
              [] s.k = "if" ->
                     ExecBody(st, f, IF Truthy(st.val) THEN s.body ELSE s.orelse, 1)
              [] OTHER -> st

ExecStmt(st, f, s) ==
    IF st.err # "" \/ st.ret THEN st ELSE Finish(Eval(st, f, s.e), f, s)

ExecBody(st, f, stmts, i) ==
    IF i > Len(stmts) THEN st ELSE ExecBody(ExecStmt(st, f, stmts[i]), f, stmts, i + 1)

\* [out, err]: what the program printed and the exception that ended it
Run(prog) ==
    LET Output(st) == [out |-> st.out, err |-> st.err]
    IN IF HasSyntaxError(prog, FALSE) THEN [out |-> <<>>, err |-> "SyntaxError"]
       ELSE Output(ExecBody(Machine, 1, prog, 1))

(***************************************************************************)
(* The inputs: source programs, snippets and editor commands.              *)
(***************************************************************************)
PrintStmt(e) == ExprS(Call("print", <<e>>))

\* def f(a): a = 2; return a
AssignsParam == Def("f", <<Param("a")>>, <<Assign("a", Lit("2")), Return(Name("a"))>>)
\* def g(): x = 1; print(x)
WritesThenCalls == Def("g", <<>>, <<Assign("x", Lit("1")), PrintStmt(Name("x"))>>)
\* def h(): return x + x
ReadsTwice == Def("h", <<>>, <<Return(Bin("+", Name("x"), Name("x")))>>)
\* def outer(a): def inner(): return a * a; return inner()
Nested ==
    Def("outer", <<Param("a")>>,
        <<Def("inner", <<>>, <<Return(Bin("*", Name("a"), Name("a")))>>),
          Return(Call("inner", <<>>))>>)

\* the top-level statements programs are made of
Statements ==
    { Assign("x", Lit("1")),
      Assign("x", Bin("+", Name("x"), Lit("1"))),
      PrintStmt(Name("x")),
      AssignsParam, WritesThenCalls, ReadsTwice, Nested,
      ExprS(Call("g", <<>>)),
      PrintStmt(Call("f", <<Lit("3")>>)),
      If(Name("x"), <<PrintStmt(Lit("1"))>>),
      IfElse(Name("x"), <<Assign("y", Lit("1"))>>, <<Assign("y", Lit("2"))>>),
      Assign("l", ListE(<<Lit("1")>>)),
      Assign("d", DictE(<<Lit("1"), Lit("2")>>)),
      Import("os") }

\* the source of the test suite's scenarios A, B and C
ScenarioA == <<Assign("x", Lit("1")), Assign("y", Bin("+", Name("x"), Lit("2"))),
               PrintStmt(Name("y"))>>
ScenarioB == <<Def("f", <<Param("a")>>, <<Return(Bin("*", Name("a"), Lit("2")))>>),
               PrintStmt(Call("f", <<Lit("3")>>)), PrintStmt(Call("f", <<Lit("4")>>))>>
ScenarioC == <<Def("outer", <<Param("x")>>,
                   <<Assign("m", Lit("2")),
                     Def("inner", <<Param("y")>>,
                         <<Return(Bin("*", Bin("+", Name("x"), Name("y")), Name("m")))>>),
                     Return(Call("inner", <<Lit("5")>>))>>),
               PrintStmt(Call("outer", <<Lit("10")>>))>>

\* a = 1; b = 0; if a: x = 1 elif b: y = 2
ElifProgram ==
    <<Assign("a", Lit("1")), Assign("b", Lit("0")),
      IfElif(Name("a"), <<Assign("x", Lit("1"))>>, If(Name("b"), <<Assign("y", Lit("2"))>>))>>
\* try: x = 1 except ValueError: y = 2 except: pass
TryProgram ==
    <<Try(<<Assign("x", Lit("1"))>>,
          <<Except(Name("ValueError"), "", <<Assign("y", Lit("2"))>>),
            Except(NoExpr, "", <<Pass>>)>>)>>
\* try: x = 1 except ValueError as e: print(e)
TryAsProgram ==
    <<Try(<<Assign("x", Lit("1"))>>,
          <<Except(Name("ValueError"), "e", <<PrintStmt(Name("e"))>>)>>)>>
\* l = [1]; for i in l: print(i)
ForProgram ==
    <<Assign("l", ListE(<<Lit("1")>>)), For("i", Name("l"), <<PrintStmt(Name("i"))>>)>>
\* x = 1; while x: x = 0
WhileProgram == <<Assign("x", Lit("1")), While(Name("x"), <<Assign("x", Lit("0"))>>)>>
\* def f(a): return a; if 1: f(1); then def g(): while 0: f(2)
CallsInBlocks ==
    <<Def("f", <<Param("a")>>, <<Return(Name("a"))>>),
      If(Lit("1"), <<ExprS(Call("f", <<Lit("1")>>))>>),
      Def("g", <<>>, <<While(Lit("0"), <<ExprS(Call("f", <<Lit("2")>>))>>)>>)>>
\* def f(a): return a; def g(): def f(b): return b; f(1); h(2); then f(3)
Shadowing ==
    <<Def("f", <<Param("a")>>, <<Return(Name("a"))>>),
      Def("g", <<>>, <<Def("f", <<Param("b")>>, <<Return(Name("b"))>>),
                       ExprS(Call("f", <<Lit("1")>>)), ExprS(Call("h", <<Lit("2")>>))>>),
      ExprS(Call("f", <<Lit("3")>>))>>
\* def f(a, b, c): return a; f(g(1, 2), 3, c=4)
NestedCallArgs ==
    <<Def("f", <<Param("a"), Param("b"), Param("c")>>, <<Return(Name("a"))>>),
      ExprS(CallKw("f", <<Call("g", <<Lit("1"), Lit("2")>>), Lit("3"), Lit("4")>>,
                   <<"", "", "c">>))>>
\* def f(a, b, c): return a; f(1, 2, c=3)
PlainCallArgs ==
    <<Def("f", <<Param("a"), Param("b"), Param("c")>>, <<Return(Name("a"))>>),
      ExprS(CallKw("f", <<Lit("1"), Lit("2"), Lit("3")>>, <<"", "", "c">>))>>

\* x = 1; f(x, x)
SameArgTwice ==
    <<Assign("x", Lit("1")), ExprS(Call("f", <<Name("x"), Name("x")>>))>>
\* x = 1; def h(): return x + x
SameOperandTwice == <<Assign("x", Lit("1")), ReadsTwice>>

\* 1; 'a'
BareLiterals == <<ExprS(Lit("1")), ExprS(Lit("'a'"))>>
\* x = 1; x
BareRead == <<Assign("x", Lit("1")), ExprS(Name("x"))>>
\* def f(): 3; u
BareInFunction == <<Def("f", <<>>, <<ExprS(Lit("3")), ExprS(Name("u"))>>)>>
\* y = u + 1; x = 2
UnresolvedRead ==
    <<Assign("y", Bin("+", Name("u"), Lit("1"))), Assign("x", Lit("2"))>>
\* try: 5 except: 6
BareInHandler ==
    <<Try(<<ExprS(Lit("5"))>>, <<Except(NoExpr, "", <<ExprS(Lit("6"))>>)>>)>>

\* the programs with expression statements nothing consumes
BarePrograms == {BareLiterals, BareRead, BareInFunction, UnresolvedRead, BareInHandler}

\* f(u, 1), with u unbound
GapCall == <<ExprS(Call("f", <<Name("u"), Lit("1")>>))>>
\* h(g(1), 2)
NestedUnlinked == <<ExprS(Call("h", <<Call("g", <<Lit("1")>>), Lit("2")>>))>>
\* f(1, k=2)
KeywordCall == <<ExprS(CallKw("f", <<Lit("1"), Lit("2")>>, <<"", "k">>))>>

\* the programs with calls of functions they do not define
UnlinkedCalls == {SameArgTwice, GapCall, NestedUnlinked, KeywordCall}

\* r.m(1), with r unbound
MethodOnUnbound == <<ExprS(Dot(Name("r"), Call("m", <<Lit("1")>>)))>>
\* r = 1; r.m(2)
MethodOnVariable ==
    <<Assign("r", Lit("1")), ExprS(Dot(Name("r"), Call("m", <<Lit("2")>>)))>>
\* r = 1; def g(): r.m(2)
MethodOnProxy ==
    <<Assign("r", Lit("1")),
      Def("g", <<>>, <<ExprS(Dot(Name("r"), Call("m", <<Lit("2")>>)))>>)>>
\* 'a'.m(2)
MethodOnLiteral == <<ExprS(Dot(Lit("'a'"), Call("m", <<Lit("2")>>)))>>
\* f().m(2)
MethodOnCall == <<ExprS(Dot(Call("f", <<>>), Call("m", <<Lit("2")>>)))>>
\* r = 1; y = r.m(r); z = r.a
MethodAndAttribute ==
    <<Assign("r", Lit("1")), Assign("y", Dot(Name("r"), Call("m", <<Name("r")>>))),
      Assign("z", Dot(Name("r"), Name("a")))>>

\* the programs with a method call
MethodPrograms ==
    {MethodOnUnbound, MethodOnVariable, MethodOnProxy, MethodOnLiteral, MethodOnCall,
     MethodAndAttribute}

\* a = 1; b = 0; if a: x = 1 elif b: f(1)
ElifCall ==
    <<Assign("a", Lit("1")), Assign("b", Lit("0")),
      IfElif(Name("a"), <<Assign("x", Lit("1"))>>,
             If(Name("b"), <<ExprS(Call("f", <<Lit("1")>>))>>))>>
\* if u: x = 1 elif v: f(1), with u and v unbound
ElifUnbound ==
    <<IfElif(Name("u"), <<Assign("x", Lit("1"))>>,
             If(Name("v"), <<ExprS(Call("f", <<Lit("1")>>))>>))>>
\* try: f(1) except ValueError: print(2)
HandlerCall ==
    <<Try(<<ExprS(Call("f", <<Lit("1")>>))>>,
          <<Except(Name("ValueError"), "", <<PrintStmt(Lit("2"))>>)>>)>>
\* def g(): print(1); x = f(2); return h(x)
CallsInFunction ==
    <<Def("g", <<>>, <<PrintStmt(Lit("1")), Assign("x", Call("f", <<Lit("2")>>)),
                       Return(Call("h", <<Name("x")>>))>>)>>

\* if 1: print(1) else: print(2)
ElseCall == <<IfElse(Lit("1"), <<PrintStmt(Lit("1"))>>, <<PrintStmt(Lit("2"))>>)>>

\* the programs with call statements in the bodies of clauses
ClausePrograms == {ElifCall, ElifUnbound, HandlerCall, CallsInFunction, ElseCall}

\* def f(a, b, c=0): return a; f(1, b=2)
DefaultedCall ==
    <<Def("f", <<Param("a"), Param("b"), [name |-> "c", optional |-> TRUE]>>,
          <<Return(Name("a"))>>),
      ExprS(CallKw("f", <<Lit("1"), Lit("2")>>, <<"", "b">>))>>
\* f(1, 2)
TwoArgCall == <<ExprS(Call("f", <<Lit("1"), Lit("2")>>))>>

\* the programs with calls whose arguments are overridden or left out
ArgumentPrograms == {DefaultedCall, TwoArgCall}

\* d = {1: 2, 3: 4}
TwoPairs == <<Assign("d", DictE(<<Lit("1"), Lit("2"), Lit("3"), Lit("4")>>))>>

\* the programs with control flow and with calls to link
ControlFlowPrograms ==
    {ElifProgram, TryProgram, TryAsProgram, ForProgram, WhileProgram, CallsInBlocks,
     Shadowing, NestedCallArgs, PlainCallArgs}

Programs ==
    {<<>>} \cup {<<s>> : s \in Statements}
    \cup {<<s, t>> : s \in Statements, t \in Statements}
    \cup {ScenarioA, ScenarioB, ScenarioC}
    \cup ControlFlowPrograms
    \cup UnlinkedCalls
    \cup MethodPrograms
    \cup BarePrograms
    \cup ClausePrograms
    \cup ArgumentPrograms
    \cup {TwoPairs}

\* z = x + 1, the snippet of scenario E
ReadSnippet == Snippet(<<Assign("z", Bin("+", Name("x"), Lit("1")))>>)
\* x = 3
WriteSnippet == Snippet(<<Assign("x", Lit("3"))>>)
ImportSnippet == Snippet(<<Import("sys")>>)
\* a snippet that parses and that the visitor fails on
ElseSnippet == Snippet(<<IfElse(Name("x"), <<Pass>>, <<Pass>>)>>)
\* def k(): return x
DefSnippet == Snippet(<<Def("k", <<>>, <<Return(Name("x"))>>)>>)

Snippets ==
    {ReadSnippet, WriteSnippet, ImportSnippet, ElseSnippet, DefSnippet, InvalidSnippet}

ImportSnippets == {ImportSnippet, InvalidSnippet}

\* the names the programs and the snippets bind
Names == {"x", "y", "z", "a", "l", "d", "m"}

IdsOfType(g, types) ==
    {g.nodes[i].id : i \in {j \in 1..Len(g.nodes) : g.nodes[j].type \in types}}

\* the worlds an editor injects into: root and every scope-owning node
TargetWorlds(g) == {"root"} \cup IdsOfType(g, {"FUNCTION_DEF", "CLASS_DEF", "IF_BLOCK"})

\* an id no node has
StaleId == "LITERAL_0"

\* the (source, target, type) an editor asks add_edge for: an edge that exists,
\* a new edge between the first and the last node, an edge from a stale id
EdgeRequests(g) ==
    {<<g.edges[i].source, g.edges[i].target, g.edges[i].type>> : i \in 1..Len(g.edges)}
    \cup (IF Len(g.nodes) < 2 THEN {}
          ELSE {<<g.nodes[1].id, g.nodes[Len(g.nodes)].id, "DATA_FLOW">>,
                <<StaleId, g.nodes[1].id, "DATA_FLOW">>})

\* the first node of a type, if any
FirstOfType(g, type) ==
    LET found == {i \in 1..Len(g.nodes) : g.nodes[i].type = type}
    IN IF found = {} THEN {} ELSE {g.nodes[CHOOSE i \in found : \A j \in found : i <= j].id}

\* the sets of ids an editor asks remove_nodes for: the first node, the last
\* node, the two together, a stale id
Removals(g) ==
    {{StaleId}} \cup (IF g.nodes = <<>> THEN {}
                      ELSE {{g.nodes[1].id}, {g.nodes[Len(g.nodes)].id},
                            {g.nodes[1].id, g.nodes[Len(g.nodes)].id}})

\* the edges a node cannot be written without
RequiredEdgeTypes == {"OPERAND", "ARGUMENT", "ITERATES_ON", "INPUT", "NEXT_CLAUSE"}

\* the (source, target, type) an editor asks remove_edge for: the first edge
\* of each required type, with the type and with no type, and an edge from a
\* stale id
EdgeRemovals(g) ==
    LET First(type) ==
            LET found == {i \in 1..Len(g.edges) : g.edges[i].type = type}
            IN IF found = {} THEN {}
               ELSE {g.edges[CHOOSE i \in found : \A j \in found : i <= j]}
    IN {<<e.source, e.target, e.type>> : e \in UNION {First(t) : t \in RequiredEdgeTypes}}
       \cup {<<e.source, e.target, "">> : e \in First("WRITES_TO")}
       \cup (IF g.nodes = <<>> THEN {} ELSE {<<StaleId, g.nodes[1].id, "">>})

\* the DICT_VALUE edge an editor asks remove_edge for: the value of the
\* first pair of the first dict
PairRemovals(g) ==
    LET found == {i \in 1..Len(g.edges) : g.edges[i].type = "DICT_VALUE"}
    IN IF found = {} THEN {}
       ELSE {<<g.edges[i].source, g.edges[i].target, "DICT_VALUE">> :
                 i \in {CHOOSE i \in found : \A j \in found : i <= j}}

\* the NEXT_CLAUSE edges an editor asks add_edge for: from the first try block
\* to the first handler, and to a stale id
ClauseRequests(g) ==
    {<<t, x, "NEXT_CLAUSE">> : t \in FirstOfType(g, "TRY_BLOCK"),
                               x \in FirstOfType(g, "EXCEPT_BLOCK") \cup {StaleId}}

\* the edges from a node to itself an editor asks add_edge for: an operator
\* as its own operand, an if block as its own next clause
CycleRequests(g) ==
    {<<o, o, "OPERAND">> : o \in FirstOfType(g, "OPERATOR")}
    \cup {<<b, b, "NEXT_CLAUSE">> : b \in FirstOfType(g, "IF_BLOCK")}

(***************************************************************************)
(* MasterDebugger: the graph it loaded, the world it shows, the worlds it  *)
(* came through, the node it selected ("" for None).                       *)
(***************************************************************************)
MasterDebugger(g) ==
    [graph |-> g, current_world |-> "root", world_stack |-> <<>>, current_node_id |-> ""]

ENTERABLE_TYPES ==
    {"FUNCTION_DEF", "CLASS_DEF", "IF_BLOCK", "ELIF_BLOCK", "ELSE_BLOCK", "FOR_BLOCK",
     "WHILE_BLOCK", "TRY_BLOCK", "EXCEPT_BLOCK"}

\* arg in n['id'], for an arg that is empty, a whole id or no part of any id
ArgIn(arg, id) == arg = "" \/ arg = id

\* next((n for n in nodes if ...), None): the position of the first node that
\* satisfies P, 0 for None
FirstWhere(nodes, P(_)) ==
    LET found == {i \in 1..Len(nodes) : P(nodes[i])}
    IN IF found = {} THEN 0 ELSE CHOOSE i \in found : \A j \in found : i <= j

do_enter(d, arg) ==
    LET Entered(t) ==
            IF t # 0
            THEN [d EXCEPT !.world_stack = Append(@, d.current_world),
                           !.current_world = d.graph.nodes[t].id,
                           !.current_node_id = ""]
            ELSE d
    IN Entered(FirstWhere(d.graph.nodes,
                           LAMBDA n : /\ ArgIn(arg, n.id)
                                     /\ n.world = d.current_world
                                     /\ n.type \in ENTERABLE_TYPES))

\* do_up that leaves the stack as it is
do_up_keeps_stack(d) ==
    IF d.world_stack # <<>>
    THEN [d EXCEPT !.current_world = Top(d.world_stack), !.current_node_id = ""]
    ELSE d

do_up(d) ==
    IF d.world_stack # <<>>
    THEN [d EXCEPT !.current_world = Top(d.world_stack),
                   !.world_stack = Pop(@),
                   !.current_node_id = ""]
    ELSE d

do_jump(d, arg) ==
    LET Selected(t) == IF t # 0 THEN [d EXCEPT !.current_node_id = d.graph.nodes[t].id] ELSE d
    IN Selected(FirstWhere(d.graph.nodes,
                           LAMBDA n : ArgIn(arg, n.id) /\ n.world = d.current_world))

do_goto(d, target) ==
    IF target \in {d.graph.nodes[i].world : i \in 1..Len(d.graph.nodes)}
    THEN [d EXCEPT !.world_stack = Append(@, d.current_world),
                   !.current_world = target,
                   !.current_node_id = ""]
    ELSE d

\* do_follow: the edge number idx of the selected node leads to a node; when
\* that node is of another world the debugger warps there.  An edge that
\* leads to no node raises, and the except clause leaves the debugger as it is
do_follow(d, idx) ==
    LET Warped(next_n) ==
            IF next_n.world # d.current_world
            THEN [d EXCEPT !.world_stack = Append(@, d.current_world),
                           !.current_world = next_n.world,
                           !.current_node_id = next_n.id]
            ELSE [d EXCEPT !.current_node_id = next_n.id]
        Followed(next_id) ==
            IF \E i \in 1..Len(d.graph.nodes) : d.graph.nodes[i].id = next_id
            THEN Warped(NodeOf(d.graph.nodes, next_id))
            ELSE d
        Chosen(edge) ==
            Followed(IF edge.target = d.current_node_id THEN edge.source ELSE edge.target)
        Indexed(rel) == IF 0 <= idx /\ idx < Len(rel) THEN Chosen(rel[idx + 1]) ELSE d
    IN IF d.current_node_id = "" THEN d
       ELSE Indexed(SelectSeq(d.graph.edges,
                              LAMBDA e : \/ e.target = d.current_node_id
                                         \/ e.source = d.current_node_id))

\* the graphs a debugger loads when it is made: none, or one that a parse saved
DebuggedPrograms == {<<>>, ScenarioC}

\* what enter is asked for: nothing, the id of a node, an id no node has
EnterArgs(g) == {"", StaleId} \cup IdsOfType(g, ENTERABLE_TYPES)
\* what goto is asked for: a world of the graph, an id no node has
GotoArgs(g) == {g.nodes[i].world : i \in 1..Len(g.nodes)} \cup {StaleId}
\* what jump is asked for: the first variable of the world shown, an id no
\* node has
JumpArgs(d) ==
    LET First(t) == IF t = 0 THEN {} ELSE {d.graph.nodes[t].id}
    IN First(FirstWhere(d.graph.nodes,
                        LAMBDA n : n.world = d.current_world /\ n.type = "VARIABLE"))
       \cup {StaleId}

(***************************************************************************)
(* The editing session: one graph, parsed from a program and then changed  *)
(* by one operation at a time.  Before the session starts, a SymbolTable   *)
(* of its own (table) takes calls, which calls records.  A debugger        *)
(* (debugger) takes commands, which commands records with the world and    *)
(* the world stack after each.                                             *)
(***************************************************************************)
VARIABLES graph, nextId, src, last, code, ops, table, calls, debugger, commands

vars == <<graph, nextId, src, last, code, ops, table, calls, debugger, commands>>

\* what the last operation was asked (op, args, snippet), what it returned
\* (ok, count, reason; returned for a mutation helper) and the graph it was
\* called with (before)
Result(op, args, snippet, r, before) ==
    [op |-> op, args |-> args, snippet |-> snippet, ok |-> r.ok, count |-> r.count,
     reason |-> r.reason, before |-> before,
     returned |-> IF "returned" \in DOMAIN r THEN r.returned ELSE ReturnsNone]

\* what a mutation helper returns, in the shape of inject_code's result
Plain(g) == [ok |-> TRUE, count |-> 0, reason |-> "", graph |-> g, returned |-> Returns(g)]

\* the same for a helper that changed the graph in place and returned r.returned
InPlace(r) ==
    [ok |-> TRUE, count |-> 0, reason |-> "", graph |-> r.graph, returned |-> r.returned]

NoCode == [done |-> FALSE, lines |-> <<>>]

Init ==
    /\ graph = EmptyGraph
    /\ nextId = 1
    /\ src = <<>>
    /\ last = Result("init", <<>>, Snippet(<<>>), Plain(EmptyGraph), EmptyGraph)
    /\ code = NoCode
    /\ ops = 0
    /\ table = <<EmptyScope>>
    /\ calls = <<>>
    /\ debugger = MasterDebugger(EmptyGraph)
    /\ commands = <<>>

HasGraph == last.op # "init" /\ ~(last.op = "parse" /\ ~last.ok)
CanEdit == HasGraph /\ ops < MaxOps
CanCall == last.op = "init" /\ Len(calls) < MaxCalls

Called(op, name, node_id, version) ==
    [op |-> op, name |-> name, id |-> node_id, version |-> version]

PushScope ==
    /\ CanCall
    /\ table' = push_scope(table)
    /\ calls' = Append(calls, Called("push", "", "", 0))
    /\ UNCHANGED <<graph, nextId, src, last, code, ops, debugger, commands>>

PopScope ==
    /\ CanCall
    /\ table' = pop_scope(table)
    /\ calls' = Append(calls, Called("pop", "", "", 0))
    /\ UNCHANGED <<graph, nextId, src, last, code, ops, debugger, commands>>

DefineWrite(name) ==
    /\ CanCall
    /\ LET node_id == NodeId("VARIABLE", Len(calls) + 1)
           Defined(w) ==
               /\ table' = w.scopes
               /\ calls' = Append(calls, Called("write", name, node_id, w.version))
       IN Defined(define_write(table, name, node_id, "root"))
    /\ UNCHANGED <<graph, nextId, src, last, code, ops, debugger, commands>>

\* the session starts on a SymbolTable no call was made on
Parse(prog) ==
    /\ last.op = "init"
    /\ calls = <<>>
    /\ LET Parsed(v) ==
               /\ graph' = IF v.err = "" THEN GraphOf(v) ELSE graph
               /\ nextId' = IF v.err = "" THEN v.nextId ELSE nextId
               /\ last' = Result("parse", <<"root">>, Snippet(prog),
                                 [ok |-> v.err = "",
                                  count |-> IF v.err = "" THEN Len(v.nodes) ELSE 0,
                                  reason |-> v.err],
                                 graph)
       IN Parsed(ParseModule(prog, nextId))
    /\ src' = prog
    /\ UNCHANGED <<code, ops, table, calls, debugger, commands>>

\* an id is never handed out twice: nextId counts the nodes ever created
Edited(op, args, snippet, r) ==
    /\ graph' = r.graph
    /\ nextId' = nextId + (IF Len(r.graph.nodes) > Len(graph.nodes)
                            THEN Len(r.graph.nodes) - Len(graph.nodes) ELSE 0)
    /\ last' = Result(op, args, snippet, r, graph)
    /\ code' = NoCode
    /\ ops' = ops + 1
    /\ UNCHANGED <<src, table, calls, debugger, commands>>

Inject(snippet, world) ==
    /\ CanEdit
    /\ Edited("inject", <<world>>, snippet, inject_code(graph, snippet, world, nextId))

\* add_import_endpoint of the server
AddImport(snippet) ==
    /\ CanEdit
    /\ Edited("add_import", <<"world_imports">>, snippet,
              inject_code(graph, snippet, "world_imports", nextId))

AddEdge(source, target, edge_type) ==
    /\ CanEdit
    /\ Edited("add_edge", <<source, target, edge_type>>, Snippet(<<>>),
              Plain(add_edge(graph, source, target, edge_type, NoEdgeData)))

AddListItem(list_node_id, value) ==
    /\ CanEdit
    /\ Edited("add_list_item", <<list_node_id, value>>, Snippet(<<>>),
              Plain(add_list_item(graph, list_node_id, value, nextId)))

AddDictPair(dict_node_id, key, value) ==
    /\ CanEdit
    /\ Edited("add_dict_pair", <<dict_node_id, key, value>>, Snippet(<<>>),
              Plain(add_dict_pair(graph, dict_node_id, key, value, nextId)))

UpdatePortLiteral(node_id, port_id, new_value) ==
    /\ CanEdit
    /\ Edited("update_port_literal", <<node_id, port_id>>, Snippet(<<>>),
              Plain(update_port_literal(graph, node_id, port_id, new_value, nextId)))

RemoveNodes(node_ids) ==
    /\ CanEdit
    /\ Edited("remove_nodes", <<node_ids>>, Snippet(<<>>),
              Plain(remove_nodes(graph, node_ids)))

UpdateNodeLiteral(node_id, new_label) ==
    /\ CanEdit
    /\ Edited("update_node_literal", <<node_id, new_label>>, Snippet(<<>>),
              Plain(update_node_literal(graph, node_id, new_label)))

RemoveEdge(source, target, edge_type) ==
    /\ CanEdit
    /\ Edited("remove_edge", <<source, target, edge_type>>, Snippet(<<>>),
              Plain(remove_edge(graph, source, target, edge_type)))

UpdateListItem(list_node_id, index, new_value) ==
    /\ CanEdit
    /\ Edited("update_list_item", <<list_node_id, index, new_value>>, Snippet(<<>>),
              Plain(update_list_item(graph, list_node_id, index, new_value)))

UpdateDictPair(dict_node_id, index, key_value, value_value) ==
    /\ CanEdit
    /\ Edited("update_dict_pair", <<dict_node_id, index, key_value, value_value>>,
              Snippet(<<>>),
              InPlace(update_dict_pair(graph, dict_node_id, index, key_value,
                                       value_value)))

Synthesize ==
    /\ HasGraph
    /\ ~code.done
    /\ code' = [done |-> TRUE, lines |-> generate_code(graph)]
    /\ UNCHANGED <<graph, nextId, src, last, ops, table, calls, debugger, commands>>

\* a command of the debugger, which leaves it as d
Command(cmd, arg, d) ==
    /\ Len(commands) < MaxCommands
    /\ debugger' = d
    /\ commands' = Append(commands, [cmd |-> cmd, arg |-> arg, world |-> d.current_world,
                                      world_stack |-> d.world_stack])
    /\ UNCHANGED <<graph, nextId, src, last, code, ops, table, calls>>

Enter(arg) == Command("enter", arg, do_enter(debugger, arg))
Up == Command("up", "", do_up(debugger))
Goto(target) == Command("goto", target, do_goto(debugger, target))
Jump(arg) == Command("jump", arg, do_jump(debugger, arg))
Follow(idx) == Command("follow", ToString(idx), do_follow(debugger, idx))

Next ==
    \/ PushScope
    \/ PopScope
    \/ \E name \in {"x", "y"} : DefineWrite(name)
    \/ \E prog \in Programs : Parse(prog)
    \/ \E snippet \in Snippets : \E world \in TargetWorlds(graph) : Inject(snippet, world)
    \/ \E snippet \in ImportSnippets : AddImport(snippet)
    \/ \E r \in EdgeRequests(graph) \cup ClauseRequests(graph) \cup CycleRequests(graph) :
           AddEdge(r[1], r[2], r[3])
    \/ \E id \in IdsOfType(graph, {"LIST_CONSTRUCTOR"}) \cup {StaleId} : AddListItem(id, "7")
    \/ \E id \in IdsOfType(graph, {"DICT_CONSTRUCTOR"}) \cup {StaleId} :
           AddDictPair(id, "8", "9")
    \/ \E id \in IdsOfType(graph, {"CALL"}) \cup {StaleId} :
           UpdatePortLiteral(id, "arg0", PortValue("", "5"))
    \/ \E node_ids \in Removals(graph) : RemoveNodes(node_ids)
    \/ \E id \in FirstOfType(graph, "LITERAL") \cup FirstOfType(graph, "VARIABLE")
                   \cup {StaleId} : UpdateNodeLiteral(id, "6")
    \/ \E r \in EdgeRemovals(graph) \cup PairRemovals(graph) : RemoveEdge(r[1], r[2], r[3])
    \/ \E id \in IdsOfType(graph, {"LIST_CONSTRUCTOR"}) \cup {StaleId} :
           UpdateListItem(id, 0, "7")
    \/ \E id \in IdsOfType(graph, {"DICT_CONSTRUCTOR"}) \cup {StaleId} :
           UpdateDictPair(id, 0, <<"8">>, <<>>)
    \/ Synthesize

Spec == Init /\ [][Next]_vars

\* a debugger, made when graph.json holds nothing or the graph of a parse
DebuggerInit ==
    /\ graph = EmptyGraph
    /\ nextId = 1
    /\ src = <<>>
    /\ last = Result("init", <<>>, Snippet(<<>>), Plain(EmptyGraph), EmptyGraph)
    /\ code = NoCode
    /\ ops = 0
    /\ table = <<EmptyScope>>
    /\ calls = <<>>
    /\ debugger \in {MasterDebugger(GraphOf(ParseModule(prog, 1))) : prog \in DebuggedPrograms}
    /\ commands = <<>>

DebuggerNext ==
    \/ \E arg \in EnterArgs(debugger.graph) : Enter(arg)
    \/ Up
    \/ \E target \in GotoArgs(debugger.graph) : Goto(target)
    \/ \E arg \in JumpArgs(debugger) : Jump(arg)
    \/ \E idx \in 0..1 : Follow(idx)

DebuggerSpec == DebuggerInit /\ [][DebuggerNext]_vars

\* l = [1, 2]; def f(a, b): return a; f(1, b=2)
ListAndCall ==
    <<Assign("l", ListE(<<Lit("1"), Lit("2")>>)),
      Def("f", <<Param("a"), Param("b")>>, <<Return(Name("a"))>>),
      ExprS(CallKw("f", <<Lit("1"), Lit("2")>>, <<"", "b">>))>>
\* l = []; f(1)
EmptyListAndCall == <<Assign("l", ListE(<<>>)), ExprS(Call("f", <<Lit("1")>>))>>

\* the programs whose graph an editor holds
EditedPrograms == {ListAndCall, EmptyListAndCall}
\* what the editor sends as the value of a list item and of a port
ItemValues == {"7", "a"}
PortValues == {PortValue("", "5"), PortValue("'", "a"), PortValue("\"", "6")}

\* an editor that holds the graph /parse answered and sends it back with
\* every request
EditorInit ==
    /\ \E prog \in EditedPrograms :
           LET Held(v) ==
                   /\ graph = GraphOf(v)
                   /\ nextId = v.nextId
                   /\ last = Result("parse", <<"root">>, Snippet(prog),
                                    [ok |-> TRUE, count |-> Len(v.nodes), reason |-> ""],
                                    EmptyGraph)
           IN src = prog /\ Held(ParseModule(prog, 1))
    /\ code = NoCode
    /\ ops = 0
    /\ table = <<EmptyScope>>
    /\ calls = <<>>
    /\ debugger = MasterDebugger(EmptyGraph)
    /\ commands = <<>>

CanEditAgain == HasGraph /\ ops < MaxEdits

\* add_list_item_endpoint of the server, on the graph of the request
EditorAddListItem(list_node_id, value) ==
    /\ CanEditAgain
    /\ Edited("add_list_item", <<list_node_id, value>>, Snippet(<<>>),
              Plain(add_list_item(graph, list_node_id, value, nextId)))

\* update_port_literal_endpoint of the server, on the graph of the request
EditorUpdatePortLiteral(node_id, port_id, new_value) ==
    /\ CanEditAgain
    /\ Edited("update_port_literal", <<node_id, port_id, new_value>>, Snippet(<<>>),
              Plain(update_port_literal(graph, node_id, port_id, new_value, nextId)))

EditorNext ==
    \/ \E id \in IdsOfType(graph, {"LIST_CONSTRUCTOR"}) : \E value \in ItemValues :
           EditorAddListItem(id, value)
    \/ \E id \in IdsOfType(graph, {"CALL"}) : \E new_value \in PortValues :
           EditorUpdatePortLiteral(id, "b", new_value)
    \/ Synthesize

EditorSpec == EditorInit /\ [][EditorNext]_vars

(***************************************************************************)
(* Properties.  last holds the request and the answer of the last          *)
(* operation and the graph it was called on, so a property of one call is  *)
(* a predicate on the state after it.                                      *)
(***************************************************************************)
Injected == last.op \in {"inject", "add_import"}
TargetWorld == last.args[1]

\* positions of the nodes and of the edges the last operation appended
AppendedNodes == (Len(last.before.nodes) + 1)..Len(graph.nodes)
AppendedEdges == (Len(last.before.edges) + 1)..Len(graph.edges)

IsPrefix(s, t) == Len(s) <= Len(t) /\ SubSeq(t, 1, Len(s)) = s

MaxIn(S) == CHOOSE m \in S : \A k \in S : k <= m

\* node n is a Variable node for the name x: its label is x or x_v<version>
Named(n, x) ==
    /\ n.type = "VARIABLE"
    /\ n.label \in {x, x \o "_v" \o ToString(n.data.version)}

\* positions in g of the Variable nodes of a world for a name, by mode
VariablesOf(g, world, x, modes) ==
    {i \in 1..Len(g.nodes) :
         /\ Named(g.nodes[i], x)
         /\ g.nodes[i].world = world
         /\ g.nodes[i].data.mode \in modes}

\* C2: when an injection fails, nodes and edges are what they were before the
\* call, elements, order and fields, and the reason returned is not empty
InjectionAtomicity ==
    Injected /\ ~last.ok => graph = last.before /\ last.reason # ""

\* an injection into a graph with nodes failed after the visitor had made a node
FailedInjection ==
    /\ last.op = "inject"
    /\ ~last.ok
    /\ last.snippet = ElseSnippet
    /\ last.before.nodes # <<>>

\* a node that a statement creates, as opposed to a node of an expression
StatementNode(n) ==
    \/ n.type \in {"IMPORT", "FUNCTION_DEF", "CLASS_DEF", "IF_BLOCK", "RETURN"}
    \/ n.type = "VARIABLE" /\ n.data.mode = "write"

\* positions of the appended nodes made for the top-level statements of the
\* snippet: statement nodes outside the worlds the snippet itself opened
TopLevelNodes ==
    {i \in AppendedNodes :
         /\ StatementNode(graph.nodes[i])
         /\ \A j \in AppendedNodes : graph.nodes[i].world # graph.nodes[j].id}

\* the frame of a successful injection: the graph before is a prefix of the
\* graph after, and the node list grew by the count returned
AppendOnly ==
    /\ IsPrefix(last.before.nodes, graph.nodes)
    /\ IsPrefix(last.before.edges, graph.edges)
    /\ Len(graph.nodes) = Len(last.before.nodes) + last.count

\* C3 as stated: a successful injection is append-only, grows the node list by
\* the count returned, and every appended node of a top-level statement of the
\* snippet has the target world as its world
InjectAppendsInTarget ==
    Injected /\ last.ok =>
        /\ AppendOnly
        /\ \A i \in TopLevelNodes : graph.nodes[i].world = TargetWorld

\* C3: a successful injection is append-only, grows the node list by the count
\* returned, and every appended node of a top-level statement of the snippet
\* has the target world as its world, except that the node of an import
\* statement has the imports world
InjectAppendsInTargetOrImports ==
    Injected /\ last.ok =>
        /\ AppendOnly
        /\ \A i \in TopLevelNodes :
               graph.nodes[i].world =
                   IF graph.nodes[i].type = "IMPORT" THEN "world_imports" ELSE TargetWorld

\* a function definition was injected into a function or block world of a graph
NestedInjection ==
    /\ last.op = "inject"
    /\ last.ok
    /\ last.snippet = DefSnippet
    /\ TargetWorld # "root"
    /\ TopLevelNodes # AppendedNodes

\* C4: when z = x + 1 is injected into a world W, root or a function, that has
\* a Variable node for x, an appended dataflow edge leaves the most recent
\* Variable node for x of W, and no appended node stands in for x
InjectedReadResolves ==
    LET Resolved(existing) ==
            /\ \E j \in AppendedEdges :
                   /\ graph.edges[j].source = last.before.nodes[MaxIn(existing)].id
                   /\ graph.edges[j].type # "CLOSURE_OF"
            /\ \A i \in AppendedNodes : ~Named(graph.nodes[i], "x")
        Checked(existing) == existing # {} => Resolved(existing)
    IN (/\ last.op = "inject"
        /\ last.ok
        /\ last.snippet = ReadSnippet
        /\ TargetWorld \in {"root"} \cup IdsOfType(last.before, {"FUNCTION_DEF"}))
       => Checked(VariablesOf(last.before, TargetWorld, "x",
                              {"param", "write", "closure_read"}))

\* the worlds of a graph that hold nodes
WorldsOf(g) == {g.nodes[i].world : i \in 1..Len(g.nodes)}

\* the Variable nodes at the positions S, in the order of the node list, have
\* the versions 1, 2, .. in that order
VersionedInOrder(g, S) ==
    \A i \in S : g.nodes[i].data.version = Cardinality({j \in S : j <= i})

\* the scopes open after the first i calls, each named by the position of the
\* push_scope that opened it, the root scope by 0
RECURSIVE OpenAfter(_, _)
OpenAfter(cs, i) ==
    LET Step(open) ==
            CASE cs[i].op = "push" -> Append(open, i)
              [] cs[i].op = "pop" /\ Len(open) > 1 -> Pop(open)
              [] OTHER -> open
    IN IF i = 0 THEN <<0>> ELSE Step(OpenAfter(cs, i - 1))

\* positions of the define_write calls for a name made in a scope
WritesIn(cs, scope, name) ==
    {i \in 1..Len(cs) :
         cs[i].op = "write" /\ cs[i].name = name /\ Top(OpenAfter(cs, i)) = scope}

\* the node of the latest define_write(name) in the innermost scope still
\* open that has one, "" when no open scope has one
LatestWrite(cs, name) ==
    LET Latest(open, defining) ==
            IF defining = {} THEN ""
            ELSE cs[MaxIn(WritesIn(cs, open[MaxIn(defining)], name))].id
        Innermost(open) ==
            Latest(open, {k \in 1..Len(open) : WritesIn(cs, open[k], name) # {}})
    IN Innermost(OpenAfter(cs, Len(cs)))

\* the n-th define_write of a name in a scope returned n, and resolve_read
\* returns the latest write of the innermost open scope that defines the name
SymbolTableVersions ==
    /\ \A i \in 1..Len(calls) :
           calls[i].op = "write" =>
               calls[i].version =
                   Cardinality({j \in WritesIn(calls, Top(OpenAfter(calls, i)),
                                               calls[i].name) : j <= i})
    /\ \A name \in {"x", "y"} : resolve_read(table, name).id = LatestWrite(calls, name)

InjectedWriteVersion ==
    LET Next1(n) ==
            \E i \in AppendedNodes :
                /\ Named(graph.nodes[i], "x")
                /\ graph.nodes[i].data.mode = "write"
                /\ graph.nodes[i].world = TargetWorld
                /\ graph.nodes[i].data.version = n + 1
    IN (last.op = "inject" /\ last.ok /\ last.snippet = WriteSnippet) =>
           /\ Next1(Cardinality(VariablesOf(last.before, TargetWorld, "x",
                                            {"param", "write"})))
           /\ \A i, j \in 1..Len(graph.nodes) :
                  (/\ i < j
                   /\ graph.nodes[i].type = "VARIABLE"
                   /\ graph.nodes[j].type = "VARIABLE"
                   /\ graph.nodes[i].world = graph.nodes[j].world)
                  => graph.nodes[i].label # graph.nodes[j].label

\* positions of the closure_read nodes of a graph
Proxies(g) ==
    {i \in 1..Len(g.nodes) :
         g.nodes[i].type = "VARIABLE" /\ g.nodes[i].data.mode = "closure_read"}

ClosureEdges(g) == {j \in 1..Len(g.edges) : g.edges[j].type = "CLOSURE_OF"}

\* at most one proxy per (world, origin), and at most one CLOSURE_OF edge from
\* an origin into a world
OneProxyPerOrigin(g) ==
    /\ \A i, k \in Proxies(g) :
           (/\ g.nodes[i].world = g.nodes[k].world
            /\ g.nodes[i].data.origin_id = g.nodes[k].data.origin_id) => i = k
    /\ \A j, l \in ClosureEdges(g) :
           (/\ g.edges[j].source = g.edges[l].source
            /\ NodeOf(g.nodes, g.edges[j].target).world
                   = NodeOf(g.nodes, g.edges[l].target).world) => j = l

\* every proxy has its one CLOSURE_OF edge, from its origin, and an edge that
\* carries the value of a Variable node stays inside the node's world
ReadsThroughProxy(g) ==
    /\ \A i \in Proxies(g) :
           {g.edges[j].source : j \in {l \in ClosureEdges(g) :
                                           g.edges[l].target = g.nodes[i].id}}
               = {g.nodes[i].data.origin_id}
    /\ \A j \in 1..Len(g.edges) \ ClosureEdges(g) :
           (/\ IsNodeId(g.nodes, g.edges[j].source)
            /\ IsNodeId(g.nodes, g.edges[j].target)
            /\ NodeOf(g.nodes, g.edges[j].source).type = "VARIABLE")
           => NodeOf(g.nodes, g.edges[j].source).world
                  = NodeOf(g.nodes, g.edges[j].target).world

ProxyUniqueness ==
    HasGraph /\ last.op \in {"parse", "inject", "add_import"} => OneProxyPerOrigin(graph)

NoDuplicateEdges(g) ==
    \A i, j \in 1..Len(g.edges) :
        (/\ g.edges[i].source = g.edges[j].source
         /\ g.edges[i].target = g.edges[j].target
         /\ g.edges[i].type = g.edges[j].type) => i = j

\* C9: add_edge with a (source, target, type) already present leaves the edge
\* list as it was, and after any operations no two edges of the graph have
\* the same (source, target, type)
IdempotentEdges ==
    /\ NoDuplicateEdges(graph)
    /\ (/\ last.op = "add_edge"
        /\ HasEdge(last.before.edges, last.args[1], last.args[2], last.args[3]))
       => graph.edges = last.before.edges

\* add_edge was called with a triple the graph already had
EdgeAddedAgain ==
    /\ last.op = "add_edge"
    /\ HasEdge(last.before.edges, last.args[1], last.args[2], last.args[3])

\* the position of a node in the node list
IndexOf(g, id) == CHOOSE i \in 1..Len(g.nodes) : g.nodes[i].id = id

\* C10: the lines of two nodes of one world are emitted in the order in which
\* the nodes were created
CreationOrder ==
    code.done =>
        \A i, j \in 1..Len(code.lines) :
            (/\ IsNodeId(graph.nodes, code.lines[i].node)
             /\ IsNodeId(graph.nodes, code.lines[j].node)
             /\ NodeOf(graph.nodes, code.lines[i].node).world
                    = NodeOf(graph.nodes, code.lines[j].node).world
             /\ IndexOf(graph, code.lines[i].node) < IndexOf(graph, code.lines[j].node))
            => i < j

RECURSIVE SupportedExpr(_)
SupportedExpr(e) ==
    /\ e.k \in {"lit", "name", "bin", "call"}
    /\ \A i \in 1..Len(e.args) : SupportedExpr(e.args[i])

\* single-name assignments, function definitions, calls, binary operations,
\* literals, return, if/else
RECURSIVE SupportedStmts(_)
SupportedStmts(stmts) ==
    \A i \in 1..Len(stmts) :
        /\ stmts[i].k \in {"assign", "expr", "return", "def", "if"}
        /\ stmts[i].k = "def" \/ SupportedExpr(stmts[i].e)
        /\ SupportedStmts(stmts[i].body \o stmts[i].orelse)

\* C1: the code generated from the graph of a parsed source of supported
\* constructs prints, when executed, what the source prints; stated for the
\* sources that run to their end without an exception
RoundTrip ==
    LET Same(output) == output[1].err = "" => output[2] = output[1]
    IN (code.done /\ last.op = "parse" /\ SupportedStmts(src)) =>
           Same([i \in 1..2 |-> Run(IF i = 1 THEN src ELSE ReadCode(code.lines))])

\* a node lacks an edge its statement is written from, or a NEXT_CLAUSE edge
\* leads to no node
Incomplete(g) ==
    \/ \E i \in 1..Len(g.nodes) :
           \/ g.nodes[i].type = "FOR_BLOCK"
              /\ _get_inputs(g, g.nodes[i].id, {"ITERATES_ON"}) = <<>>
           \/ g.nodes[i].type \in {"WHILE_BLOCK", "IF_BLOCK"}
              /\ _get_inputs(g, g.nodes[i].id, {"INPUT"}) = <<>>
           \/ g.nodes[i].type = "OPERATOR"
              /\ Len(_get_inputs(g, g.nodes[i].id, {"OPERAND"})) < 2
    \/ \E i \in 1..Len(g.edges) :
           g.edges[i].type = "NEXT_CLAUSE" /\ ~IsNodeId(g.nodes, g.edges[i].target)

\* C11: generate_code never raises on an incomplete graph: the text it returns
\* holds no statement that an exception took the place of
SynthesisNeverAborts ==
    (code.done /\ Incomplete(graph)) =>
        \A i \in 1..Len(code.lines) : code.lines[i].k # "error"

\* the mutation helpers
Helpers ==
    {"remove_nodes", "update_node_literal", "update_port_literal", "add_list_item",
     "update_list_item", "add_dict_pair", "update_dict_pair", "add_edge", "remove_edge"}

\* the node ids the last helper call was given
IdsGiven ==
    CASE last.op = "remove_nodes" -> last.args[1]
      [] last.op \in {"add_edge", "remove_edge"} -> {last.args[1], last.args[2]}
      [] OTHER -> {last.args[1]}

Range(seq) == {seq[i] : i \in 1..Len(seq)}

\* the last operation was a helper called with an id that no node had
StaleCall ==
    /\ last.op \in Helpers
    /\ \E id \in IdsGiven : ~IsNodeId(last.before.nodes, id)

\* C12: a mutation helper called with an id that is the id of no node leaves
\* the set of nodes and the set of edges as they were
StaleIdsAreNoOps ==
    StaleCall => /\ Range(graph.nodes) = Range(last.before.nodes)
                 /\ Range(graph.edges) = Range(last.before.edges)

\* C13: every call of a mutation helper returns the whole graph, a record
\* with nodes and edges, whether or not it changed anything
HelpersReturnGraph == last.op \in Helpers => last.returned = Returns(graph)

\* after is before without the elements at the positions out of kept, the
\* others unchanged and in the same order
KeepsInOrder(before, after, kept) ==
    /\ Len(after) = Cardinality(kept)
    /\ \A i \in kept : after[Cardinality({j \in kept : j <= i})] = before[i]

\* every edge of g leads from a node of g to a node of g
EndpointsExist(g) ==
    \A i \in 1..Len(g.edges) :
        IsNodeId(g.nodes, g.edges[i].source) /\ IsNodeId(g.nodes, g.edges[i].target)

\* C14: after remove_nodes(graph, ids) no node with an id in ids and no edge
\* from or to an id in ids remains, every other node and edge is kept,
\* unchanged and in order, and edges that all had existing endpoints before
\* still have them
Deletion ==
    LET Removed(before, ids) ==
            /\ \A i \in 1..Len(graph.nodes) : graph.nodes[i].id \notin ids
            /\ \A i \in 1..Len(graph.edges) :
                   graph.edges[i].source \notin ids /\ graph.edges[i].target \notin ids
            /\ KeepsInOrder(before.nodes, graph.nodes,
                            {i \in 1..Len(before.nodes) : before.nodes[i].id \notin ids})
            /\ KeepsInOrder(before.edges, graph.edges,
                            {i \in 1..Len(before.edges) :
                                 /\ before.edges[i].source \notin ids
                                 /\ before.edges[i].target \notin ids})
            /\ EndpointsExist(before) => EndpointsExist(graph)
    IN last.op = "remove_nodes" => Removed(last.before, last.args[1])

\* remove_nodes took a node with edges out of a graph whose edges all had
\* existing endpoints, and left nodes and edges behind
NodeWithEdgesRemoved ==
    /\ last.op = "remove_nodes"
    /\ EndpointsExist(last.before)
    /\ graph.nodes # <<>> /\ Len(graph.nodes) < Len(last.before.nodes)
    /\ graph.edges # <<>> /\ Len(graph.edges) < Len(last.before.edges)

\* the nodes of a type, in creation order
NodesOfType(g, type) == SelectSeq(g.nodes, LAMBDA n : n.type = type)

\* the written variables of a world are named as in stmts and have version 1
OwnsWrites(g, world_id, stmts) ==
    \A i \in 1..Len(stmts) :
        stmts[i].k = "assign" =>
            \E j \in 1..Len(g.nodes) :
                /\ g.nodes[j].type = "VARIABLE" /\ g.nodes[j].world = world_id
                /\ g.nodes[j].label = stmts[i].name /\ g.nodes[j].data.version = 1

\* C15: parsing a source that is one if/else statement creates one IF_BLOCK
\* and one ELSE_BLOCK, linked by a NEXT_CLAUSE edge from the if to the else,
\* each owning the version-1 variables of its body, and the generated code has
\* the if header followed by an else clause
IfElseChain ==
    LET Linked(ifs, elses) ==
            /\ Len(ifs) = 1 /\ Len(elses) = 1
            /\ HasEdge(graph.edges, ifs[1].id, elses[1].id, "NEXT_CLAUSE")
            /\ OwnsWrites(graph, ifs[1].id, src[1].body)
            /\ OwnsWrites(graph, elses[1].id, src[1].orelse)
            /\ code.done =>
                   \E i, j \in 1..Len(code.lines) :
                       /\ i < j
                       /\ code.lines[i].k = "if" /\ code.lines[i].node = ifs[1].id
                       /\ code.lines[j].k = "else" /\ code.lines[j].node = elses[1].id
    IN (last.op = "parse" /\ Len(src) = 1 /\ src[1].k = "if" /\ src[1].has_else) =>
           /\ last.ok
           /\ Linked(NodesOfType(graph, "IF_BLOCK"), NodesOfType(graph, "ELSE_BLOCK"))

\* the top-level if statements of the source
IfStatements == {i \in 1..Len(src) : src[i].k = "if"}

\* the statement is if a: A elif b: B, with nothing after the elif
IsIfElif(s) ==
    /\ s.k = "if" /\ ~s.has_else /\ Len(s.orelse) = 1
    /\ s.orelse[1].k = "if" /\ s.orelse[1].orelse = <<>>

\* C16: parsing a source whose only if statement is if a: A elif b: B creates
\* exactly one IF_BLOCK and exactly one ELIF_BLOCK, the ELIF_BLOCK linked from
\* the IF_BLOCK by NEXT_CLAUSE and receiving its test through an INPUT edge,
\* and the nodes of B have the ELIF_BLOCK as their world
ElifChain ==
    LET Linked(ifs, elifs, elif) ==
            /\ Len(ifs) = 1 /\ Len(elifs) = 1
            /\ HasEdge(graph.edges, ifs[1].id, elifs[1].id, "NEXT_CLAUSE")
            /\ \E i \in 1..Len(graph.edges) :
                   graph.edges[i].target = elifs[1].id /\ graph.edges[i].type = "INPUT"
            /\ OwnsWrites(graph, elifs[1].id, elif.body)
    IN (/\ last.op = "parse" /\ last.ok
        /\ Cardinality(IfStatements) = 1
        /\ \A i \in IfStatements : IsIfElif(src[i]))
       => \A i \in IfStatements :
              Linked(NodesOfType(graph, "IF_BLOCK"), NodesOfType(graph, "ELIF_BLOCK"),
                     src[i].orelse[1])

\* the lines written for a node as a clause of kind k
ClauseLines(k, node_id) ==
    {i \in 1..Len(code.lines) : code.lines[i].k = k /\ code.lines[i].node = node_id}

\* C17: parsing a source that is one try statement with k >= 1 handlers
\* creates one TRY_BLOCK and k EXCEPT_BLOCK nodes, each handler linked to the
\* try node by a NEXT_CLAUSE edge and owning the nodes of its body, and the
\* generated code has the try clause followed by the k handler clauses in
\* handler order
TryHandlers ==
    LET Handled(tries, excepts, handlers) ==
            /\ Len(tries) = 1 /\ Len(excepts) = Len(handlers)
            /\ \A i \in 1..Len(excepts) :
                   /\ \/ HasEdge(graph.edges, tries[1].id, excepts[i].id, "NEXT_CLAUSE")
                      \/ HasEdge(graph.edges, excepts[i].id, tries[1].id, "NEXT_CLAUSE")
                   /\ OwnsWrites(graph, excepts[i].id, handlers[i].body)
            /\ code.done =>
                   \A i \in 1..Len(excepts) :
                       \E j \in ClauseLines("except", excepts[i].id) :
                           /\ \E t \in ClauseLines("try", tries[1].id) : t < j
                           /\ i > 1 =>
                                  \E h \in ClauseLines("except", excepts[i - 1].id) : h < j
    IN (last.op = "parse" /\ Len(src) = 1 /\ src[1].k = "try" /\ src[1].orelse # <<>>) =>
           /\ last.ok
           /\ Handled(NodesOfType(graph, "TRY_BLOCK"), NodesOfType(graph, "EXCEPT_BLOCK"),
                      src[1].orelse)

\* the world of a node and the worlds around it, from the innermost to root:
\* the world around the world of a scope-owning node is that node's own world
RECURSIVE EnclosingWorlds(_, _, _)
EnclosingWorlds(g, world_id, fuel) ==
    IF fuel = 0 \/ ~IsNodeId(g.nodes, world_id) THEN <<world_id>>
    ELSE <<world_id>> \o EnclosingWorlds(g, NodeOf(g.nodes, world_id).world, fuel - 1)

\* the positions of the definitions of a name in a world
DefinedIn(g, world_id, name) ==
    {i \in 1..Len(g.nodes) :
         /\ g.nodes[i].type \in {"FUNCTION_DEF", "CLASS_DEF"}
         /\ g.nodes[i].world = world_id /\ g.nodes[i].label = name}

\* the definitions a call's name has in the nearest world that has any (the
\* last of them is the one registered), or {}
NearestDefinitions(g, call) ==
    LET Nearest(chain) ==
            LET levels == {i \in 1..Len(chain) : DefinedIn(g, chain[i], call.label) # {}}
            IN IF levels = {} THEN {}
               ELSE DefinedIn(g, chain[CHOOSE i \in levels : \A j \in levels : i <= j],
                              call.label)
    IN Nearest(EnclosingWorlds(g, call.world, Len(g.nodes)))

\* the call is linked to the definition its name has in the nearest world
LinkedToNearest(g, call) ==
    LET Linked(defs) ==
            IF defs = {} THEN call.data.target_world = ""
            ELSE /\ call.data.target_world = g.nodes[MaxOf(defs)].id
                 /\ call.data.params = g.nodes[MaxOf(defs)].data.params
    IN Linked(NearestDefinitions(g, call))

\* C18: after parsing, every non-method call whose name is defined in its own
\* world or a world around it has the nearest definition as target_world and
\* a copy of its parameter list, and a call whose name no enclosing world
\* defines has no target_world
CallLinking ==
    (last.op = "parse" /\ last.ok) =>
        \A i \in 1..Len(graph.nodes) :
            (graph.nodes[i].type = "CALL" /\ ~graph.nodes[i].data.is_method)
                => LinkedToNearest(graph, graph.nodes[i])

\* the worlds of control-flow blocks
BlockTypes ==
    {"IF_BLOCK", "ELIF_BLOCK", "ELSE_BLOCK", "FOR_BLOCK", "WHILE_BLOCK", "TRY_BLOCK",
     "EXCEPT_BLOCK"}

\* C19: after parsing, a call in the world of a control-flow block to a
\* function defined in a world around the block has target_world set to the
\* id of that definition
BlockCallLinking ==
    (last.op = "parse" /\ last.ok) =>
        \A i \in 1..Len(graph.nodes) :
            (/\ graph.nodes[i].type = "CALL"
             /\ graph.nodes[i].world \in IdsOfType(graph, BlockTypes)
             /\ NearestDefinitions(graph, graph.nodes[i]) # {})
            => graph.nodes[i].data.target_world
                   = graph.nodes[MaxOf(NearestDefinitions(graph, graph.nodes[i]))].id

\* the ARGUMENT edges into a call, in the order the arguments were visited
ArgumentEdges(g, call_id) ==
    SelectSeq(g.edges, LAMBDA e : e.target = call_id /\ e.type = "ARGUMENT")

\* C20: after parsing, the positional arguments of every call are wired by
\* ARGUMENT edges with index 0, 1, 2, ... in argument order, counted among the
\* positional arguments of that call only, and a keyword argument by an edge
\* with its keyword and no index, also when an earlier argument is a call
ArgumentIndexing ==
    LET Indexed(positional, keyword) ==
            /\ \A i \in 1..Len(positional) : positional[i].data.index = i - 1
            /\ \A i \in 1..Len(keyword) : keyword[i].data.index = -1
        Wired(arguments) ==
            Indexed(SelectSeq(arguments, LAMBDA e : e.data.keyword = ""),
                    SelectSeq(arguments, LAMBDA e : e.data.keyword # ""))
    IN (last.op = "parse" /\ last.ok) =>
           \A i \in 1..Len(graph.nodes) :
               graph.nodes[i].type = "CALL" =>
                   Wired(ArgumentEdges(graph, graph.nodes[i].id))

\* the programs in which every operand and every argument is a literal, a
\* read of a name bound before it, a call or a nested operation
WiredPrograms ==
    {SameOperandTwice, SameArgTwice, <<Nested>>, ScenarioA, ScenarioB, ScenarioC}

\* the edges of one type and index that come into a node
EdgesInto(g, id, type, index) ==
    {j \in 1..Len(g.edges) :
        /\ g.edges[j].target = id
        /\ g.edges[j].type = type
        /\ g.edges[j].data.index = index}

\* C21: in the parse of a program whose operands all produce a node, every
\* OPERATOR node has one incoming OPERAND edge with index 0 and one with
\* index 1, also for x + x, and the call f(x, x) has one ARGUMENT edge with
\* index 0 and one with index 1
OperandWiring ==
    last.op = "parse" /\ last.ok /\ src \in WiredPrograms =>
        \A i \in 1..Len(graph.nodes) : \A index \in {0, 1} :
            /\ graph.nodes[i].type = "OPERATOR" =>
                   Cardinality(EdgesInto(graph, graph.nodes[i].id, "OPERAND", index)) = 1
            /\ src = SameArgTwice /\ graph.nodes[i].type = "CALL" =>
                   Cardinality(EdgesInto(graph, graph.nodes[i].id, "ARGUMENT", index)) = 1

\* the names DefineWrite binds
SymbolNames == {"x", "y"}

\* the scopes of a SymbolTable after the first n of the calls cs
RECURSIVE TableAfter(_, _)
TableAfter(cs, n) ==
    LET Apply(scopes) ==
            CASE cs[n].op = "push" -> push_scope(scopes)
              [] cs[n].op = "pop" -> pop_scope(scopes)
              [] OTHER -> define_write(scopes, cs[n].name, cs[n].id, "root").scopes
    IN IF n = 0 THEN <<EmptyScope>> ELSE Apply(TableAfter(cs, n - 1))

\* what a scope holds for a name, <<>> when it does not bind it
EntryOf(scope, name) == IF name \in DOMAIN scope THEN <<scope[name]>> ELSE <<>>

\* the write changed nothing but the entry for its name in the innermost scope
OnlyInnermost(before, after, name) ==
    /\ Len(after) = Len(before)
    /\ \A k \in 1..Len(before) : \A other \in SymbolNames :
           k # Len(before) \/ other # name =>
               EntryOf(after[k], other) = EntryOf(before[k], other)
    /\ EntryOf(after[Len(after)], name) # <<>>

\* call j is the pop_scope that matches the push_scope that is call i
Matching(cs, i, j) ==
    /\ i < j
    /\ cs[i].op = "push"
    /\ cs[j].op = "pop"
    /\ Top(OpenAfter(cs, j - 1)) = i

\* C26: define_write changes only the entry of its name in the innermost
\* scope, and after a push_scope, the calls that follow it and the matching
\* pop_scope, resolve_read returns for every name what it returned before the
\* push and the outer scopes, version counters included, are as they were
ShadowingWrites ==
    /\ table = TableAfter(calls, Len(calls))
    /\ \A n \in 1..Len(calls) :
           calls[n].op = "write" =>
               OnlyInnermost(TableAfter(calls, n - 1), TableAfter(calls, n), calls[n].name)
    /\ \A i \in 1..Len(calls) : \A j \in 1..Len(calls) :
           Matching(calls, i, j) =>
               /\ TableAfter(calls, j) = TableAfter(calls, i - 1)
               /\ \A name \in SymbolNames :
                      resolve_read(TableAfter(calls, j), name)
                          = resolve_read(TableAfter(calls, i - 1), name)

\* a name bound outside was written again between a push_scope and its pop_scope
ShadowedAndPopped ==
    \E i \in 1..Len(calls) : \E j \in 1..Len(calls) : \E m \in 1..Len(calls) :
        /\ Matching(calls, i, j)
        /\ i < m /\ m < j
        /\ calls[m].op = "write"
        /\ resolve_read(TableAfter(calls, i - 1), calls[m].name).id # ""
        /\ resolve_read(table, calls[m].name).id # calls[m].id
        /\ j = Len(calls)

\* C27: the symbol table always holds at least one scope, a pop_scope leaves
\* the outermost scope as it was, and on a table with one scope it changes
\* nothing
RootScopeKept ==
    /\ Len(table) >= 1
    /\ \A n \in 1..Len(calls) :
           calls[n].op = "pop" =>
               /\ TableAfter(calls, n)[1] = TableAfter(calls, n - 1)[1]
               /\ Len(TableAfter(calls, n - 1)) = 1 =>
                      TableAfter(calls, n) = TableAfter(calls, n - 1)

\* more pops than pushes were made on a table whose outermost scope binds x
PoppedAtRoot ==
    /\ Len(calls) >= 2
    /\ calls[Len(calls)].op = "pop"
    /\ Len(TableAfter(calls, Len(calls) - 1)) = 1
    /\ "x" \in DOMAIN table[1]

\* a statement that is a literal or a name and nothing else
IsBare(s) == s.k = "expr" /\ s.e.k \in {"lit", "name"}

\* the statements without the bare ones, at every depth
RECURSIVE WithoutBare(_)
WithoutBare(stmts) ==
    LET Inner(s) == [s EXCEPT !.body = WithoutBare(s.body),
                              !.orelse = WithoutBare(s.orelse)]
    IN IF stmts = <<>> THEN <<>>
       ELSE IF IsBare(stmts[1]) THEN WithoutBare(Tail(stmts))
       ELSE <<Inner(stmts[1])>> \o WithoutBare(Tail(stmts))

\* C28: a parse succeeds whatever names are unbound; a read of an unbound
\* name adds no node and no edge, and the statements after it are parsed as
\* they are without it; an expression statement that is a literal or a name
\* adds no node, so that a program of such statements gives the empty graph
UnresolvedReadsIgnored ==
    last.op = "parse" /\ src \in {<<>>} \cup BarePrograms
                             \cup {<<PrintStmt(Name("x")), t>> :
                                       t \in {s \in Statements : ~s.has_else}} =>
        /\ last.ok
        /\ src = UnresolvedRead =>
               /\ Len(graph.nodes) = 5
               /\ \A i \in 1..Len(graph.nodes) :
                      /\ graph.nodes[i].label # "u"
                      /\ EdgesInto(graph, graph.nodes[i].id, "OPERAND", 0) = {}
        /\ src # <<>> /\ Head(src) = PrintStmt(Name("x")) =>
               graph = GraphOf(ParseModule(<<ExprS(Call("print", <<>>))>> \o Tail(src), 1))
        /\ src \in BarePrograms => graph = GraphOf(ParseModule(WithoutBare(src), 1))
        /\ src \in {<<>>, BareLiterals} => graph = EmptyGraph

\* C29: generate_code returns for every graph the session reaches: its
\* recursion never goes deeper than the graph has nodes
SynthesisTerminates ==
    code.done => \A i \in 1..Len(code.lines) : Raised(code.lines[i]) # RecursionError.name

\* the label visit_Assign gives the write of a name with a version
VersionedLabel(x, version) == IF version > 1 THEN x \o "_v" \o ToString(version) ELSE x

\* the name a write node was created for
NameOf(node) ==
    CHOOSE x \in Names \cup {node.label} : VersionedLabel(x, node.data.version) = node.label

\* the writes of a graph in order of creation: world, name and version
WritesOf(g) ==
    LET Nodes(writes) ==
            [i \in 1..Len(writes) |->
                [world |-> writes[i].world, name |-> NameOf(writes[i]),
                 version |-> writes[i].data.version]]
    IN Nodes(SelectSeq(g.nodes, LAMBDA n : n.type = "VARIABLE" /\ n.data.mode = "write"))

\* C25: the text generate_code gives for the graph of a parsed source parses
\* again, and its graph has the same writes: as many for each name in each
\* world, with the same versions
ReparseKeepsVersions ==
    LET Same(v) == v.err = "" /\ WritesOf(GraphOf(v)) = WritesOf(graph)
    IN (code.done /\ last.op = "parse" /\ last.ok /\ SupportedStmts(src)) =>
           Same(ParseModule(ReadCode(code.lines), 1))

\* the elements of a set of numbers in ascending order
RECURSIVE Ascending(_)
Ascending(S) ==
    IF S = {} THEN <<>>
    ELSE <<CHOOSE m \in S : \A x \in S : m <= x>>
         \o Ascending(S \ {CHOOSE m \in S : \A x \in S : m <= x})

\* the ARGUMENT edges into a call
ArgumentsOf(g, call_id) ==
    SelectSeq(g.edges, LAMBDA e : e.target = call_id /\ e.type = "ARGUMENT")

\* arg<i> for each index an edge has, in ascending order, then the keywords
PlaceholderParams(arguments) ==
    LET Positional(indexes) ==
            [i \in 1..Len(indexes) |-> Param("arg" \o ToString(indexes[i]))]
        Keyword(edges) == [i \in 1..Len(edges) |-> Param(edges[i].data.keyword)]
    IN Positional(Ascending({arguments[i].data.index : i \in 1..Len(arguments)} \ {-1}))
       \o Keyword(SelectSeq(arguments, LAMBDA e : e.data.keyword # ""))

\* the synthesized call has one argument for every wired edge, its source
RendersEveryArgument(g, call, arguments) ==
    LET Rendered(sources) ==
            /\ Len(sources) = Len(arguments)
            /\ {sources[i].id : i \in 1..Len(sources)}
                   = {arguments[i].source : i \in 1..Len(arguments)}
    IN Rendered(CallSources(g, call))

\* C23: after a parse, a call that is not linked and has ARGUMENT edges has
\* the params arg<i> for the indexes of its edges, ascending, then one for
\* each keyword edge: as many params as edges, and every wired argument is
\* rendered; a linked call has the params of its definition
Hydration ==
    last.op = "parse" /\ last.ok =>
        \A i \in 1..Len(graph.nodes) :
            graph.nodes[i].type = "CALL" =>
                LET call == graph.nodes[i]
                    Placeholders(arguments) ==
                        arguments # <<>> =>
                            /\ call.data.params = PlaceholderParams(arguments)
                            /\ Len(call.data.params) = Len(arguments)
                            /\ RendersEveryArgument(graph, call, arguments)
                IN IF call.data.target_world = ""
                   THEN Placeholders(ArgumentsOf(graph, call.id))
                   ELSE call.data.params = NodeOf(graph.nodes, call.data.target_world).data.params

\* the edges of a type into a node that P holds of
EdgesWhere(g, id, type, P(_)) ==
    SelectSeq(g.edges, LAMBDA e : e.target = id /\ e.type = type /\ P(e))

\* the call in the expression of a line: a method call is receiver.call
CallOf(e) == IF e.k = "dot" THEN e.args[2] ELSE e

\* argument i of the synthesized call e is the one the precedence picks for
\* parameter i of the call node: the port literal of its name, else the
\* argument wired with its name as keyword, else the argument wired with
\* index i - 1, else None; the first two are written name=value
PicksByPrecedence(g, call, e, i) ==
    LET name == call.data.params[i].name
        Is(kw, edges) ==
            /\ e.kws[i] = kw
            /\ e.args[i] = _synth_expr(g, Top(edges).source, {})
        Wired(by_keyword, by_index) ==
            IF by_keyword # <<>> THEN Is(name, by_keyword)
            ELSE IF by_index # <<>> THEN Is("", by_index)
            ELSE e.kws[i] = "" /\ e.args[i] = NoneExpr
        Override(port_literal) ==
            IF port_literal # <<>> THEN Is(name, port_literal)
            ELSE Wired(EdgesWhere(g, call.id, "ARGUMENT", LAMBDA a : a.data.keyword = name),
                       EdgesWhere(g, call.id, "ARGUMENT",
                                  LAMBDA a : a.data.keyword = "" /\ a.data.index = i - 1))
    IN Override(EdgesWhere(g, call.id, "DATA_FLOW", LAMBDA a : a.data.port_name = name))

\* the lines of the generated code that are calls written as statements
CallLines ==
    {i \in 1..Len(code.lines) :
        /\ code.lines[i].k = "expr"
        /\ IsNodeId(graph.nodes, code.lines[i].node)
        /\ NodeOf(graph.nodes, code.lines[i].node).type = "CALL"}

MethodCallNodes(g) ==
    {i \in 1..Len(g.nodes) :
        /\ g.nodes[i].type = "CALL"
        /\ EdgesInto(g, g.nodes[i].id, "ARGUMENT", 0) # {}}

\* C22: in the parse of a program with a method call r.m(...), whatever r is
\* (an unbound name, a variable, a closure proxy, a literal, a call), the Call
\* node of the method call is labelled m and flagged is_method, no other node
\* is flagged, and a receiver that produces a node is wired to that Call node
\* by an ATTRIBUTE_VALUE edge
MethodCalls ==
    last.op = "parse" /\ src \in MethodPrograms =>
        /\ last.ok
        /\ MethodCallNodes(graph) # {}
        /\ \A i \in 1..Len(graph.nodes) :
               graph.nodes[i].data.is_method <=> i \in MethodCallNodes(graph)
        /\ \A i \in MethodCallNodes(graph) :
               /\ graph.nodes[i].label = "m"
               /\ src # MethodOnUnbound =>
                      \E j \in 1..Len(graph.edges) :
                          /\ graph.edges[j].target = graph.nodes[i].id
                          /\ graph.edges[j].type = "ATTRIBUTE_VALUE"

\* the world and the world stack of the debugger before command i
WorldBefore(cs, i) == IF i = 1 THEN "root" ELSE cs[i - 1].world
StackBefore(cs, i) == IF i = 1 THEN <<>> ELSE cs[i - 1].world_stack

\* command i is a successful enter (an enterable node of the world shown
\* matches), a successful goto (the target is a world of the graph) or a
\* follow that changes world
Pushes(g, cs, i) ==
    CASE cs[i].cmd = "enter" ->
             \E n \in 1..Len(g.nodes) :
                 /\ ArgIn(cs[i].arg, g.nodes[n].id)
                 /\ g.nodes[n].world = WorldBefore(cs, i)
                 /\ g.nodes[n].type \in ENTERABLE_TYPES
      [] cs[i].cmd = "goto" -> cs[i].arg \in WorldsOf(g)
      [] cs[i].cmd = "follow" -> cs[i].world # WorldBefore(cs, i)
      [] OTHER -> FALSE

RECURSIVE Unmatched(_, _, _)

\* the positions of the commands among the first i that changed world and
\* that no up has matched yet, the latest last
Unmatched(g, cs, i) ==
    LET Step(open) ==
            CASE Pushes(g, cs, i) -> Append(open, i)
              [] cs[i].cmd = "up" /\ open # <<>> -> Pop(open)
              [] OTHER -> open
    IN IF i = 0 THEN <<>> ELSE Step(Unmatched(g, cs, i - 1))

\* C30: the debugger starts in root with an empty stack; an up returns to the
\* world that was shown before the enter or goto it matches, and with nothing
\* to match it changes neither the world nor the stack; an enter that no
\* enterable node of the world shown matches changes neither; so after
\* commands that changed world and as many ups the world shown is root
DebuggerNavigation ==
    /\ commands = <<>> => debugger.current_world = "root" /\ debugger.world_stack = <<>>
    /\ commands # <<>> => debugger.current_world = commands[Len(commands)].world
    /\ Unmatched(debugger.graph, commands, Len(commands)) = <<>> =>
           debugger.current_world = "root"
    /\ \A i \in 1..Len(commands) :
           LET Stays == /\ commands[i].world = WorldBefore(commands, i)
                        /\ commands[i].world_stack = StackBefore(commands, i)
               BackTo(open) ==
                   IF open = <<>> THEN Stays
                   ELSE commands[i].world = WorldBefore(commands, open[Len(open)])
           IN CASE commands[i].cmd = "up" ->
                       BackTo(Unmatched(debugger.graph, commands, i - 1))
                [] commands[i].cmd = "enter" /\ ~Pushes(debugger.graph, commands, i) ->
                       Stays
                [] OTHER -> TRUE

\* an enter and a goto, each into another world, and the two ups that match
\* them: the debugger shows root again
EnteredAndBack ==
    /\ Len(commands) = 4
    /\ commands[1].cmd = "enter" /\ commands[1].world # "root"
    /\ commands[2].cmd = "goto" /\ commands[2].world \notin {"root", commands[1].world}
    /\ commands[3].cmd = "up" /\ commands[3].world = commands[1].world
    /\ commands[4].cmd = "up"
    /\ debugger.current_world = "root"

\* a node feeds another: it has an outgoing edge of a data or structural kind
Feeds(g, id) ==
    \E i \in 1..Len(g.edges) :
        g.edges[i].source = id /\ g.edges[i].type \notin {"CLOSURE_OF", "NEXT_CLAUSE"}

\* the node types _synth_expr renders inside the text of a consumer
ExpressionTypes ==
    {"CALL", "OPERATOR", "LIST_CONSTRUCTOR", "DICT_CONSTRUCTOR", "ATTRIBUTE", "LITERAL"}

\* the node a node is rendered for: the end of the chain of its consumers,
\* followed for at most fuel edges
RECURSIVE ConsumerOf(_, _, _)
ConsumerOf(g, id, fuel) ==
    LET out == {i \in 1..Len(g.edges) :
                   g.edges[i].source = id
                   /\ g.edges[i].type \notin {"CLOSURE_OF", "NEXT_CLAUSE"}}
    IN IF fuel = 0 \/ out = {} \/ ~IsNodeId(g.nodes, id) THEN id
       ELSE IF NodeOf(g.nodes, id).type \notin ExpressionTypes THEN id
       ELSE ConsumerOf(g, g.edges[CHOOSE i \in out : \A j \in out : i <= j].target, fuel - 1)

\* how many calls of a function an expression holds
RECURSIVE CallsIn(_, _)
RECURSIVE CallsInArgs(_, _, _)
CallsInArgs(e, name, i) ==
    IF i > Len(e.args) THEN 0
    ELSE CallsIn(e.args[i], name) + CallsInArgs(e, name, i + 1)
CallsIn(e, name) ==
    (IF e.k = "call" /\ e.name = name THEN 1 ELSE 0) + CallsInArgs(e, name, 1)

\* how many calls of a function the lines written for a node hold
RECURSIVE CallsWritten(_, _, _, _)
CallsWritten(lines, i, node_id, name) ==
    IF i > Len(lines) THEN 0
    ELSE (IF lines[i].node = node_id THEN CallsIn(lines[i].e, name) ELSE 0)
         + CallsWritten(lines, i + 1, node_id, name)

\* C31: after the synthesis of a parsed program, a Call node is written as a
\* statement exactly when it has no outgoing edge other than CLOSURE_OF and
\* NEXT_CLAUSE, and the lines written for the consumer of a Call hold each
\* Call that feeds it exactly once
CallStatements ==
    (code.done /\ last.op = "parse" /\ \A l \in 1..Len(code.lines) : Raised(code.lines[l]) = "") =>
        \A i \in 1..Len(graph.nodes) :
            graph.nodes[i].type = "CALL" =>
                LET Once(call, consumer) ==
                        (\E l \in 1..Len(code.lines) : code.lines[l].node = consumer) =>
                            CallsWritten(code.lines, 1, consumer, call.label)
                            = Cardinality({j \in 1..Len(graph.nodes) :
                                  /\ graph.nodes[j].type = "CALL"
                                  /\ graph.nodes[j].label = call.label
                                  /\ ConsumerOf(graph, graph.nodes[j].id, Len(graph.nodes))
                                     = consumer})
                IN /\ (\E l \in 1..Len(code.lines) :
                           code.lines[l].k = "expr" /\ code.lines[l].node = graph.nodes[i].id)
                       <=> ~Feeds(graph, graph.nodes[i].id)
                   /\ Once(graph.nodes[i],
                           ConsumerOf(graph, graph.nodes[i].id, Len(graph.nodes)))

\* how many expression statements of a program are calls, at every depth
RECURSIVE CallStatementsOf(_)
CallStatementsOf(stmts) ==
    IF stmts = <<>> THEN 0
    ELSE (IF stmts[1].k = "expr" /\ CallOf(stmts[1].e).k = "call" THEN 1 ELSE 0)
         + CallStatementsOf(stmts[1].body) + CallStatementsOf(stmts[1].orelse)
         + CallStatementsOf(Tail(stmts))

\* the edges into definitions and blocks that come from another world: from
\* a node of a body, the test or iterator of a block being in the block's world
EdgesFromBodies(g) ==
    {i \in 1..Len(g.edges) :
        /\ IsNodeId(g.nodes, g.edges[i].source)
        /\ IsNodeId(g.nodes, g.edges[i].target)
        /\ NodeOf(g.nodes, g.edges[i].target).type
               \in BlockTypes \cup {"FUNCTION_DEF", "CLASS_DEF"}
        /\ NodeOf(g.nodes, g.edges[i].source).world
               # NodeOf(g.nodes, g.edges[i].target).world}

\* C32: the statements of a body are visited with an empty active-parent
\* stack: a parse succeeds whatever bodies the program has (function, if,
\* elif, else, loop, try, except), no node of a body has an edge to a
\* definition or a block, and every call written as a statement in the
\* source is written as a statement by the synthesizer
BodyStatements ==
    last.op = "parse" /\ src # TryAsProgram =>
        /\ last.ok
        /\ EdgesFromBodies(graph) = {}
        /\ code.done => Cardinality(CallLines) = CallStatementsOf(src)

\* the nodes the nodes of ids are computed from: the sources of the edges
\* into them, and the sources of the edges into those, fuel times over
RECURSIVE InputsOf(_, _, _)
InputsOf(g, ids, fuel) ==
    LET Grown(more) ==
            IF fuel = 0 \/ more \subseteq ids THEN ids \cup more
            ELSE InputsOf(g, ids \cup more, fuel - 1)
    IN Grown({g.edges[i].source : i \in {j \in 1..Len(g.edges) : g.edges[j].target \in ids}})

\* the nodes of the expression a Variable node is written from
WrittenFrom(g, id) ==
    {g.edges[i].source :
         i \in {j \in 1..Len(g.edges) : g.edges[j].target = id /\ g.edges[j].type = "WRITES_TO"}}

\* x = 1; x = x + 1
Increment == <<Assign("x", Lit("1")), Assign("x", Bin("+", Name("x"), Lit("1")))>>

\* C33: in a parsed graph no Variable write node is among the nodes its own
\* WRITES_TO expression is computed from, and in x = 1; x = x + 1 the left
\* operand of the sum is wired from the version-1 node of x
ReadsPreviousVersion ==
    (last.op = "parse" /\ last.ok) =>
        /\ \A i \in 1..Len(graph.nodes) :
               (graph.nodes[i].type = "VARIABLE" /\ graph.nodes[i].data.mode = "write") =>
                   graph.nodes[i].id
                       \notin InputsOf(graph, WrittenFrom(graph, graph.nodes[i].id),
                                       Len(graph.nodes))
        /\ src = Increment =>
               \A j \in 1..Len(graph.edges) :
                   (graph.edges[j].type = "OPERAND" /\ graph.edges[j].data.index = 0) =>
                       /\ graph.edges[j].source = graph.nodes[1].id
                       /\ graph.nodes[1].data.version = 1

\* the visitor a traversal started with: the one tree.visit(visitor) of
\* inject_code is called on, for the last parse or injection
StartOfVisit ==
    IF last.op = "parse" THEN WorldVisitor("root", 1)
    ELSE [WorldVisitor(TargetWorld,
                       nextId - (Len(graph.nodes) - Len(last.before.nodes))) EXCEPT
              !.scopes = populate_symbols(last.before, "root", @, FALSE)]

\* the visitor when it enters the body of the statement s it started as v
AtBody(v, s) == VisitBlock(VisitExpr(VisitStatement(v, s), s.e), s)

\* the visitor when it enters the body of handler i of a try statement, v
\* being the visitor after the body of the try
AtHandler(v, handlers, i, try_id) ==
    LET Body(v1) ==
            IF v1.err # "" THEN v1
            ELSE visit_ExceptHandler_body(VisitExpr(v1, handlers[i].e), handlers[i],
                                          LastId(v1))
        Clause(v1) ==
            IF v1.err # "" THEN v1
            ELSE Body(visit_ExceptHandler(
                          PushParent(v1, Parent("NEXT_CLAUSE", try_id, i - 1, "")),
                          handlers[i]))
    IN Clause(VisitHandlers(v, SubSeq(handlers, 1, i - 1), 1, try_id))

\* v1 is v after it entered one world, the world of the node world_id
EnteredFrom(v, v1, world_id) ==
    /\ v1.current_world = world_id
    /\ v1.world_stack = Append(v.world_stack, v.current_world)
    /\ Len(v1.scopes) = Len(v.scopes) + 1

\* the statements that open a world
Constructs == {"def", "if", "for", "while", "try"}

\* the traversal of the statements stmts[i], stmts[i + 1], ... that starts
\* with the visitor v keeps the stacks balanced: at every statement the
\* scopes are depth more than the entered worlds, in the body of a construct
\* (of an elif, of a handler) the visitor is one world further in, in the
\* world of the node of the construct, and after a statement the world, the
\* world stack and the number of scopes are what they were before it
RECURSIVE Balanced(_, _, _, _)
Balanced(v, stmts, i, depth) ==
    LET Inside(v1) ==
            (v1.err = "" /\ stmts[i].k \in Constructs) =>
                /\ EnteredFrom(v, v1, v1.nodes[Len(v.nodes) + 1].id)
                /\ Balanced(v1, stmts[i].body, 1, depth)
        InHandler(v1, v2, h) ==
            v2.err = "" =>
                /\ EnteredFrom(v1, v2, Top(SelectSeq(v2.nodes, LAMBDA n :
                                               n.type = "EXCEPT_BLOCK")).id)
                /\ Balanced(v2, stmts[i].orelse[h].body, 1, depth)
        Handlers(v1, try_id) ==
            \A h \in 1..Len(stmts[i].orelse) :
                InHandler(v1, AtHandler(v1, stmts[i].orelse, h, try_id), h)
        Clauses(v1) ==
            CASE v1.err # "" -> TRUE
              [] stmts[i].k = "if" /\ stmts[i].orelse # <<>> /\ ~stmts[i].has_else ->
                     Balanced(visit_If_elif(v1, stmts[i]), stmts[i].orelse, 1, depth)
              [] stmts[i].k = "try" -> Handlers(LeaveWorld(v1), v1.current_world)
              [] OTHER -> TRUE
        After(v1) ==
            /\ v1.err = "" =>
                   /\ v1.current_world = v.current_world
                   /\ v1.world_stack = v.world_stack
                   /\ Len(v1.scopes) = Len(v.scopes)
            /\ Balanced(v1, stmts, i + 1, depth)
    IN \/ v.err # ""
       \/ i > Len(stmts)
       \/ /\ Len(v.scopes) = (Len(v.world_stack) - 1) + depth
          /\ Inside(AtBody(v, stmts[i]))
          /\ Clauses(VisitBody(AtBody(v, stmts[i]), stmts[i].body, 1))
          /\ After(VisitStmt(v, stmts[i]))

\* C34: the traversal of every parsed program and of every injected snippet
\* keeps the world stack and the scope stack balanced, from the depths the
\* traversal started with
BalancedStacks ==
    (last.op \in {"parse", "inject", "add_import"} /\ last.snippet.valid) =>
        LET Visit(v) == Balanced(v, last.snippet.body, 1, Len(v.scopes))
        IN Visit(StartOfVisit)

\* a program with a loop in a function, two levels of worlds, was parsed, and
\* the visitor ended in the root world with one scope
NestedWorldsLeft ==
    /\ last.op = "parse"
    /\ last.ok
    /\ src = CallsInBlocks
    /\ \E i \in 1..Len(graph.nodes) :
           /\ graph.nodes[i].world \notin {"root", "world_imports"}
           /\ NodeOf(graph.nodes, graph.nodes[i].world).world # "root"
    /\ LET Left(v) == v.current_world = "root" /\ v.world_stack = <<"root">>
                      /\ Len(v.scopes) = 1
       IN Left(VisitBody(StartOfVisit, src, 1))

\* the worlds nodes can be in: root, the imports, and the nodes that own a scope
WorldsOwned(g) ==
    {"root", "world_imports"} \cup IdsOfType(g, BlockTypes \cup {"FUNCTION_DEF", "CLASS_DEF"})

\* C35: after a parse, an injection or a removal of nodes, the world of every
\* node is root, world_imports or the id of a definition or block node of
\* the graph
NoOrphanWorlds ==
    last.op \in {"parse", "inject", "add_import", "remove_nodes"} =>
        \A i \in 1..Len(graph.nodes) : graph.nodes[i].world \in WorldsOwned(graph)

\* in every argument list of the expression, the arguments in keyword form
\* come after the positional ones
RECURSIVE WellFormed(_)
WellFormed(e) ==
    /\ e.k = "call" =>
           \A i \in 1..Len(e.kws) : \A j \in 1..Len(e.kws) :
               (i < j /\ e.kws[i] # "") => e.kws[j] # ""
    /\ \A i \in 1..Len(e.args) : WellFormed(e.args[i])

\* C36: in the generated code no call has a positional argument after an
\* argument in keyword form
WellFormedArguments ==
    code.done => \A l \in 1..Len(code.lines) : WellFormed(code.lines[l].e)

\* the edges of a type into a node
EdgesOfType(g, id, type) ==
    {i \in 1..Len(g.edges) : g.edges[i].target = id /\ g.edges[i].type = type}

\* C37: the expression of a DICT_CONSTRUCTOR node has as many pairs as the
\* node has keys, or values if those are fewer; every pair is made of the
\* key and the value wired with one and the same index, and the pairs are in
\* ascending order of that index
DictSynthesis ==
    HasGraph =>
        \A d \in IdsOfType(graph, {"DICT_CONSTRUCTOR"}) :
            LET IndexOfPair(e, n) ==
                    /\ \E k \in EdgesOfType(graph, d, "DICT_KEY") :
                           /\ SortKey(graph.edges[k]) = n
                           /\ e.args[1] = _synth_expr(graph, graph.edges[k].source, {})
                    /\ \E v \in EdgesOfType(graph, d, "DICT_VALUE") :
                           /\ SortKey(graph.edges[v]) = n
                           /\ e.args[2] = _synth_expr(graph, graph.edges[v].source, {})
                Pairs(e, keys, values) ==
                    /\ e.k = "dict"
                    /\ Len(e.args) = 2 * (IF keys < values THEN keys ELSE values)
                    /\ \E index \in [1..(Len(e.args) \div 2) -> 0..Len(graph.edges)] :
                           /\ \A p \in DOMAIN index :
                                  IndexOfPair([args |-> SubSeq(e.args, 2 * p - 1, 2 * p)],
                                              index[p])
                           /\ \A p \in DOMAIN index : \A q \in DOMAIN index :
                                  p < q => index[p] < index[q]
            IN Pairs(_synth_expr(graph, d, {}),
                     Cardinality(EdgesOfType(graph, d, "DICT_KEY")),
                     Cardinality(EdgesOfType(graph, d, "DICT_VALUE")))

\* the value a literal text stands for in Python: a number, or the string
\* between its quotes; a bare word an editor sends stands for that string
Quotes == {"'", "\""}
Bodies == {"", "a", "5", "6", "7"}
Denoted(text) ==
    LET quoted == {b \in Bodies : text \in {q \o b \o q : q \in Quotes}}
    IN IF text \in Numerals THEN [string |-> FALSE, text |-> text]
       ELSE IF quoted # {} THEN [string |-> TRUE, text |-> CHOOSE b \in quoted : TRUE]
       ELSE [string |-> TRUE, text |-> text]

\* the elements of a list node carry the indices 0..n-1, each once
Indexed(g, id) ==
    LET elements == EdgesOfType(g, id, "LIST_ELEMENT")
    IN \A e \in elements :
           /\ g.edges[e].data.index \in 0..(Cardinality(elements) - 1)
           /\ \A f \in elements : g.edges[f].data.index = g.edges[e].data.index => f = e

\* the nodes and edges a graph had are the first nodes and edges of another
Extends(g, before, nodes, edges) ==
    /\ Len(g.nodes) = Len(before.nodes) + nodes
    /\ Len(g.edges) = Len(before.edges) + edges
    /\ SubSeq(g.nodes, 1, Len(before.nodes)) = before.nodes
    /\ SubSeq(g.edges, 1, Len(before.edges)) = before.edges

\* C38: add_list_item on a LIST_CONSTRUCTOR node whose elements have the
\* indices 0..n-1 adds one LITERAL node in the world of the list and one
\* LIST_ELEMENT edge with index n and changes no node or edge there was; the
\* list is then synthesized as its elements of before, in their order,
\* followed by the new value; the indices of every list stay 0..n+k-1, each
\* once, after any number k of calls
AddListItemAppends ==
    /\ \A id \in IdsOfType(graph, {"LIST_CONSTRUCTOR"}) : Indexed(graph, id)
    /\ (last.op = "add_list_item"
        /\ last.args[1] \in IdsOfType(last.before, {"LIST_CONSTRUCTOR"})) =>
           LET list_node == NodeOf(graph.nodes, last.args[1])
               Appended(n, literal, element) ==
                   /\ literal.type = "LITERAL"
                   /\ literal.world = list_node.world
                   /\ element.source = literal.id
                   /\ element.target = list_node.id
                   /\ element.type = "LIST_ELEMENT"
                   /\ element.data.index = n
               Rendered(old, new) ==
                   /\ new.k = "list"
                   /\ Len(new.args) = Len(old.args) + 1
                   /\ SubSeq(new.args, 1, Len(old.args)) = old.args
                   /\ new.args[Len(new.args)].k = "lit"
                   /\ Denoted(new.args[Len(new.args)].name) = Denoted(last.args[2])
           IN /\ Extends(graph, last.before, 1, 1)
              /\ Appended(Cardinality(EdgesOfType(last.before, list_node.id,
                                                  "LIST_ELEMENT")),
                          graph.nodes[Len(graph.nodes)], graph.edges[Len(graph.edges)])
              /\ Rendered(_synth_expr(last.before, list_node.id, {}),
                          _synth_expr(graph, list_node.id, {}))

\* the list of l = [1, 2] after two calls of add_list_item
ItemsAppended ==
    /\ src = ListAndCall
    /\ last.op = "add_list_item"
    /\ Cardinality(EdgesOfType(graph, last.args[1], "LIST_ELEMENT")) = 4

\* the edges into a node that carry a port name
PortEdges(g, id, port_id) ==
    {i \in 1..Len(g.edges) : g.edges[i].target = id /\ g.edges[i].data.port_name = port_id}

\* C39: update_port_literal on a node N of the graph and a port p that has no
\* edge yet adds one LITERAL node in the world of N and one edge into N with
\* port_name p; on a port that has its edge it adds no node and no edge and
\* changes the label of that literal only; N has then one edge for p, whose
\* literal holds the value written, and a CALL node N with a parameter named
\* p is synthesized with p = that literal; no node ever has two edges for
\* one port
CreatesOrUpdates ==
    /\ \A i \in 1..Len(graph.nodes) :
           Cardinality(PortEdges(graph, graph.nodes[i].id, "b")) <= 1
    /\ (last.op = "update_port_literal" /\ IsNodeId(last.before.nodes, last.args[1])) =>
           LET N == NodeOf(graph.nodes, last.args[1])
               p == last.args[2]
               Created(literal, edge) ==
                   /\ Extends(graph, last.before, 1, 1)
                   /\ literal.type = "LITERAL"
                   /\ literal.world = N.world
                   /\ edge.source = literal.id
                   /\ edge.target = N.id
               Updated(literal_id) ==
                   /\ Len(graph.nodes) = Len(last.before.nodes)
                   /\ graph.edges = last.before.edges
                   /\ \A i \in 1..Len(graph.nodes) :
                          \/ graph.nodes[i] = last.before.nodes[i]
                          \/ /\ graph.nodes[i].id = literal_id
                             /\ graph.nodes[i] = [last.before.nodes[i] EXCEPT
                                                      !.label = graph.nodes[i].label]
               Holds(literal, written) ==
                   /\ literal.type = "LITERAL"
                   /\ Denoted(_synth_expr(graph, literal.id, {}).name)
                          = Denoted(written.quote \o written.body \o written.quote)
               Preferred(call, literal) ==
                   \A i \in 1..Len(N.data.params) :
                       N.data.params[i].name = p =>
                           /\ call.kws[i] = p
                           /\ call.args[i] = literal
               One(edges) ==
                   /\ Cardinality(edges) = 1
                   /\ \A e \in edges :
                          /\ Holds(NodeOf(graph.nodes, graph.edges[e].source), last.args[3])
                          /\ N.type = "CALL" =>
                                 Preferred(CallOf(_synth_expr(graph, N.id, {})),
                                           _synth_expr(graph, graph.edges[e].source, {}))
               Was(edges) ==
                   IF edges = {}
                   THEN Created(graph.nodes[Len(graph.nodes)], graph.edges[Len(graph.edges)])
                   ELSE \A e \in edges : Updated(last.before.edges[e].source)
           IN /\ Was(PortEdges(last.before, N.id, p))
              /\ One(PortEdges(graph, N.id, p))

====
